---- MODULE Spec2Model ----
(***************************************************************************)
(* A key-value record store (src/database.rs, DatabaseClient) layered on   *)
(* an append-only, height-ordered blob log, and the indexed metadata       *)
(* variant of src/schema.rs (DatabaseMetadata).                            *)
(*                                                                         *)
(* The ledger is the external collaborator: submitted batches wait in a    *)
(* mempool until the ledger includes them in a new block or rejects them.  *)
(* Every await of DatabaseClient on blob_submit is a suspension point, so  *)
(* the batches of two clients can land in one block.  A scan reads head    *)
(* once and then only positions <= head, which never change, so a scan is  *)
(* one step; the positions whose fetch fails are an input of the scan.     *)
(***************************************************************************)
EXTENDS Integers, Sequences, FiniteSets, TLC

\* ------------------------------------------------------------- bounds
MaxHeight == 4      \* blocks the ledger produces
MaxOps == 3         \* calls that read the clock (store creations and add_record calls)
MaxMdOps == 4       \* add_record / delete_record calls on a DatabaseMetadata
MaxTime == 2        \* readings of the wall clock (Utc::now) a Record sees
MaxMoves == 2       \* moves applied to the Game
MaxHandled == 3     \* client messages the GameServer matches
MaxGameHead == 12   \* the head main reads before it looks for a game state
ScanHeights == 2    \* heights of a log given to the scans
MaxLaterHeight == 6 \* blocks the ledger produces while a store is left and taken up again

\* ---------------------------------------------------------- constants
LookBack == 10           \* get_latest_game_state: height.saturating_sub(10)
NamespaceLen == 10          \* database.rs:28
DefaultSearchLimit == 100   \* database.rs:95

Clients == {1, 2}
Keys == {"k1", "k2"}
NsLens == {NamespaceLen - 2, NamespaceLen}

None == [some |-> FALSE]
Some(x) == [some |-> TRUE, v |-> x]
Limits == {None, Some(1)}
ScanLimits == {None, Some(0), Some(1), Some(2)}

VARIABLES
  log,        \* log[h]: the blobs of the namespace at height h, in block order
  mempool,    \* submitted batches not yet included: <<[c, blobs], ...>>
  clock,      \* chrono::Utc::now(), as a logical clock
  pc,         \* pc[c]: where client c's DatabaseClient is
  metadata,   \* metadata[c]: DatabaseClient.metadata, an Option
  search_limit, \* search_limit[c]: DatabaseClient.search_limit, an Option
  local,      \* local[c]: the arguments and locals of c's call that are alive across an await
  ret,        \* what the last completed call returned, and to whom, until the next call starts
  md,         \* a schema.rs DatabaseMetadata value
  mdret,      \* what the last DatabaseMetadata call returned
  rec,        \* a schema.rs Record value, an Option (None before Record::new)
  recret,     \* the Record call made last, and the value it was made on
  game,       \* main.rs: the shared Game, as the number of moves applied to it
  game_lock,  \* the task holding the Mutex<Game> guard, 0 when it is free
  peer_map_lock, \* the task holding the PeerMap guard, 0 when it is free
  peer_map,   \* the addrs whose sender is in the PeerMap
  conn,       \* conn[a]: where the handle_connection task of addr a is, and its locals
  sent,       \* sent[a]: the gameState messages ws_out to addr a, in order
  clients,    \* server.rs: the client ids whose broadcast sender is in GameServer.clients
  game_state, \* server.rs: GameServer.game_state
  sconn,      \* sconn[i]: where the GameServer::handle_connection task of client i is
  rx,         \* rx[i]: the messages in client i's broadcast channel
  ws_out,  \* ws_out[i]: the messages written to client i's websocket, in order
  handled,    \* the client messages the GameServer has matched so far
  gls,        \* main.rs: the get_latest_game_state call of main
  initial_game, \* main.rs: the Game main starts from, an Option
  walk        \* database.rs: one scan taken a fetch at a time, with its locals

dbvars == <<log, mempool, clock, pc, metadata, search_limit, local, ret>>
mdvars == <<md, mdret>>
recvars == <<rec, recret>>
gamevars == <<game, game_lock, peer_map_lock, peer_map, conn, sent>>
srvvars == <<clients, game_state, sconn, rx, ws_out, handled>>
loadvars == <<gls, initial_game>>
vars == <<log, mempool, clock, pc, metadata, search_limit, local, ret, md, mdret,
          rec, recret, game, game_lock, peer_map_lock, peer_map, conn, sent,
          clients, game_state, sconn, rx, ws_out, handled, gls, initial_game, walk>>

\* ------------------------------------------------------------ ledger
\* header_local_head().height().value()
LatestHeight == Len(log)

\* ------------------------------------------------------------- codec
\* serde_json::from_slice::<DatabaseMetadata> / ::<Record> succeed on the
\* blobs serialized from that type and on no other.
DecodesAsMetadata(blob) == blob.t = "meta"
DecodesAsRecord(blob) == blob.t = "rec"

\* What deserialization keeps of a blob.
AsMetadata(blob) ==
  [start_height |-> blob.start_height, record_count |-> blob.record_count,
   last_updated |-> blob.last_updated]
AsRecord(blob) == [key |-> blob.key, data |-> blob.data]

\* The blobs serialized from a DatabaseMetadata and from a Record; `by` names
\* the client that submitted the blob (not part of the bytes).
MetadataBlob(m, c) ==
  [t |-> "meta", start_height |-> m.start_height, record_count |-> m.record_count,
   last_updated |-> m.last_updated, by |-> c]
RecordBlob(key, data, c) ==
  [t |-> "rec", key |-> key, data |-> data, by |-> c]

\* -------------------------------------------------------------- scans
\* get_blobs_at_height: Err when the call fails and when blob_get_all
\* answers None (no blob of the namespace at that height).
GetBlobsAtHeight(height, fails) ==
  IF height \in fails \/ height \notin DOMAIN log \/ log[height] = <<>>
  THEN [ok |-> FALSE, blobs |-> <<>>]
  ELSE [ok |-> TRUE, blobs |-> log[height]]

\* for blob in blobs { if let Ok(metadata) = from_slice::<DatabaseMetadata> { return } }
RECURSIVE FirstMetadata(_)
FirstMetadata(blobs) ==
  IF blobs = <<>> THEN None
  ELSE IF DecodesAsMetadata(blobs[1]) THEN Some(AsMetadata(blobs[1]))
  ELSE FirstMetadata(Tail(blobs))

\* The same loop without the key test: the first blob that decodes as a record.
RECURSIVE FirstRecordAnyKey(_, _)
FirstRecordAnyKey(blobs, key) ==
  IF blobs = <<>> THEN None
  ELSE IF DecodesAsRecord(blobs[1]) THEN Some(AsRecord(blobs[1]))
  ELSE FirstRecordAnyKey(Tail(blobs), key)

\* for blob in blobs { if let Ok(record) = from_slice::<Record> { if record.key == key { return } } }
RECURSIVE FirstRecord(_, _)
FirstRecord(blobs, key) ==
  IF blobs = <<>> THEN None
  ELSE IF DecodesAsRecord(blobs[1]) /\ blobs[1].key = key THEN Some(AsRecord(blobs[1]))
  ELSE FirstRecord(Tail(blobs), key)

\* The lower end with a saturating subtraction: 0 when head <= limit.
SearchStartSaturating(latest_height, limit) ==
  IF limit.some
  THEN IF latest_height > limit.v THEN latest_height - limit.v ELSE 0
  ELSE IF latest_height > DefaultSearchLimit THEN latest_height - DefaultSearchLimit ELSE 0

\* The lower end of discover_database's search range.
SearchStart(latest_height, limit) ==
  IF limit.some
  THEN IF latest_height > limit.v THEN latest_height - limit.v ELSE 1
  ELSE IF latest_height > DefaultSearchLimit THEN latest_height - DefaultSearchLimit ELSE 1

\* The same search without .rev(): from start_height upward, `height` being
\* the upper end.
RECURSIVE SearchMetadataUp(_, _, _)
SearchMetadataUp(height, start_height, fails) ==
  IF height < start_height THEN None
  ELSE LET r == GetBlobsAtHeight(start_height, fails)
           m == IF r.ok THEN FirstMetadata(r.blobs) ELSE None
       IN IF m.some THEN m ELSE SearchMetadataUp(height, start_height + 1, fails)

\* for height in (start_height..=latest_height).rev(), looking for metadata,
\* from `height` down.
RECURSIVE SearchMetadata(_, _, _)
SearchMetadata(height, start_height, fails) ==
  IF height < start_height THEN None
  ELSE LET r == GetBlobsAtHeight(height, fails)
           m == IF r.ok THEN FirstMetadata(r.blobs) ELSE None
       IN IF m.some THEN m ELSE SearchMetadata(height - 1, start_height, fails)

DiscoverDatabase(latest_height, limit, fails) ==
  SearchMetadata(latest_height, SearchStart(latest_height, limit), fails)

\* The heights that loop passes to get_blobs_at_height, in the order of the
\* calls: a call that fails is a call, and the return ends the loop.
RECURSIVE SearchMetadataFetches(_, _, _)
SearchMetadataFetches(height, start_height, fails) ==
  IF height < start_height THEN <<>>
  ELSE LET r == GetBlobsAtHeight(height, fails)
           m == IF r.ok THEN FirstMetadata(r.blobs) ELSE None
       IN <<height>> \o (IF m.some THEN <<>>
                         ELSE SearchMetadataFetches(height - 1, start_height, fails))

DiscoverFetches(latest_height, limit, fails) ==
  SearchMetadataFetches(latest_height, SearchStart(latest_height, limit), fails)

\* The same search without .rev(): from start_height upward, `height` being
\* the upper end.
RECURSIVE SearchRecordUp(_, _, _, _)
SearchRecordUp(height, start_height, fails, key) ==
  IF height < start_height THEN None
  ELSE LET r == GetBlobsAtHeight(start_height, fails)
           m == IF r.ok THEN FirstRecord(r.blobs, key) ELSE None
       IN IF m.some THEN m ELSE SearchRecordUp(height, start_height + 1, fails, key)

\* The same search with `Err(_) => break`: it ends at the first height whose
\* fetch is an Err.
RECURSIVE SearchRecordBreak(_, _, _, _)
SearchRecordBreak(height, start_height, fails, key) ==
  IF height < start_height THEN None
  ELSE LET r == GetBlobsAtHeight(height, fails)
           m == IF r.ok THEN FirstRecord(r.blobs, key) ELSE None
       IN IF ~r.ok THEN None
          ELSE IF m.some THEN m
          ELSE SearchRecordBreak(height - 1, start_height, fails, key)

\* for height in (start_height..=latest_height).rev(), looking for a key.
RECURSIVE SearchRecord(_, _, _, _)
SearchRecord(height, start_height, fails, key) ==
  IF height < start_height THEN None
  ELSE LET r == GetBlobsAtHeight(height, fails)
           m == IF r.ok THEN FirstRecord(r.blobs, key) ELSE None
       IN IF m.some THEN m ELSE SearchRecord(height - 1, start_height, fails, key)

\* records_map: the (key, record) entries of a HashMap, in insertion order.
ContainsKey(map, key) == \E i \in DOMAIN map : map[i].key = key
MapInsert(map, record) ==
  IF ContainsKey(map, record.key)
  THEN [i \in DOMAIN map |-> IF map[i].key = record.key THEN record ELSE map[i]]
  ELSE Append(map, record)

\* The same step collecting into a Vec: records.push(record), no key check.
PushRecord(map, record) == Append(map, record)

\* The same step without the test: records_map.insert(record.key, record).
InsertOverwrite(map, record) == MapInsert(map, record)

\* if !records_map.contains_key(&record.key) { records_map.insert(..) }
InsertIfAbsent(map, record) ==
  IF ~ContainsKey(map, record.key) THEN MapInsert(map, record) ELSE map

\* for blob in blobs { if let Ok(record) = from_slice::<Record> { ... } }
RECURSIVE CollectRecords(_, _)
CollectRecords(blobs, map) ==
  IF blobs = <<>> THEN map
  ELSE CollectRecords(Tail(blobs),
         IF DecodesAsRecord(blobs[1]) THEN InsertIfAbsent(map, AsRecord(blobs[1])) ELSE map)

\* A scan that returns at the first height it could fetch.
RECURSIVE ScanRecordsFirstHeight(_, _, _, _)
ScanRecordsFirstHeight(height, start_height, fails, map) ==
  IF height < start_height THEN map
  ELSE LET r == GetBlobsAtHeight(height, fails)
       IN IF r.ok THEN CollectRecords(r.blobs, map)
          ELSE ScanRecordsFirstHeight(height - 1, start_height, fails, map)

RECURSIVE ScanRecords(_, _, _, _)
ScanRecords(height, start_height, fails, map) ==
  IF height < start_height THEN map
  ELSE LET r == GetBlobsAtHeight(height, fails)
       IN ScanRecords(height - 1, start_height, fails,
                      IF r.ok THEN CollectRecords(r.blobs, map) ELSE map)

\* let start_height = if let Some(metadata) = &self.metadata { .. } else { 1 }
ScanStart(c) == IF metadata[c].some THEN metadata[c].v.start_height ELSE 1

\* The positions whose fetch fails during one scan: none, or one of the log
\* that holds blobs (the fetch of any other position is an Err already).
FailSets == {{}} \cup {{h} : h \in {g \in DOMAIN log : log[g] # <<>>}}

\* ------------------------------------------------------ return values
NoLocal == [latest_height |-> 0, height |-> 0, fetched |-> <<>>]
NoArg == [key |-> "", hint |-> None]
NewArg(ns_len, start_height_hint, limit) ==
  [key |-> "", hint |-> start_height_hint, limit |-> limit, ns_len |-> ns_len]

\* A completed call: who called what with which arguments, and what it returned.
Return(c, op, ok, val, arg) ==
  [c |-> c, op |-> op, ok |-> ok, val |-> val, arg |-> arg]

\* What a failed new, get_record or list_records returns: the DatabaseError,
\* the ledger call whose failure it reports, the head reads the call had made
\* and whether it had fetched positions and had submitted a blob by then.
ErrVal(err, cause, heads, fetched, submitted) ==
  [err |-> err, cause |-> cause, heads |-> heads, fetched |-> fetched,
   submitted |-> submitted]

\* No call has completed since the last one started.
NoReturn == Return(0, "none", TRUE, "", NoArg)

\* ---------------------------------------------------- DatabaseClient
\* A new that reads the head before it looks at the namespace.
NewHeadFirst(c, ns_len, start_height_hint, limit, head_ok, fails) ==
  /\ pc[c] = "none"
  /\ UNCHANGED <<log, mempool, clock, md, mdret, recvars, gamevars, srvvars, loadvars, walk>>
  /\ IF ns_len # NamespaceLen
     THEN /\ ret' = Return(c, "new", FALSE, ErrVal("InvalidNamespace", "none", 1, FALSE, FALSE),
                           NewArg(ns_len, start_height_hint, limit))
          /\ UNCHANGED <<pc, metadata, search_limit, local>>
     ELSE IF ~head_ok
     THEN /\ ret' = Return(c, "new", FALSE, ErrVal("CelestiaError", "head", 1, FALSE, FALSE),
                           NewArg(ns_len, start_height_hint, limit))
          /\ UNCHANGED <<pc, metadata, search_limit, local>>
     ELSE LET found == DiscoverDatabase(LatestHeight, limit, fails)
          IN /\ search_limit' = [search_limit EXCEPT ![c] = limit]
             /\ IF found.some
                THEN /\ metadata' = [metadata EXCEPT ![c] = found]
                     /\ pc' = [pc EXCEPT ![c] = "ready"]
                     /\ ret' = Return(c, "new", TRUE,
                                      [how |-> "found", latest_height |-> LatestHeight,
                                       metadata |-> found.v, others |-> metadata,
                                       fetched |-> DiscoverFetches(LatestHeight, limit, fails),
                                       fails |-> fails \cap
                                         (SearchStart(LatestHeight, limit)..LatestHeight),
                                       clean |-> \A h \in fails :
                                         h < SearchStart(LatestHeight, limit) \/ h > LatestHeight],
                                      NewArg(ns_len, start_height_hint, limit))
                     /\ UNCHANGED local
                ELSE /\ pc' = [pc EXCEPT ![c] = "creating"]
                     /\ ret' = NoReturn
                     /\ local' = [local EXCEPT ![c].fetched =
                                    DiscoverFetches(LatestHeight, limit, fails)]
                     /\ UNCHANGED metadata

\* new, up to the end of discover_database: the namespace check, the head
\* read, the search.  A store that is found is adopted; otherwise new goes
\* on to create one.  The _start_height argument is accepted and not used.
New(c, ns_len, start_height_hint, limit, head_ok, fails) ==
  /\ pc[c] = "none"
  /\ UNCHANGED <<log, mempool, clock, md, mdret, recvars, gamevars, srvvars, loadvars, walk>>
  /\ IF ns_len # NamespaceLen
     THEN /\ ret' = Return(c, "new", FALSE, ErrVal("InvalidNamespace", "none", 0, FALSE, FALSE),
                           NewArg(ns_len, start_height_hint, limit))
          /\ UNCHANGED <<pc, metadata, search_limit, local>>
     ELSE IF ~head_ok
     THEN /\ ret' = Return(c, "new", FALSE, ErrVal("CelestiaError", "head", 1, FALSE, FALSE),
                           NewArg(ns_len, start_height_hint, limit))
          /\ UNCHANGED <<pc, metadata, search_limit, local>>
     ELSE LET found == DiscoverDatabase(LatestHeight, limit, fails)
          IN /\ search_limit' = [search_limit EXCEPT ![c] = limit]
             /\ IF found.some
                THEN /\ metadata' = [metadata EXCEPT ![c] = found]
                     /\ pc' = [pc EXCEPT ![c] = "ready"]
                     /\ ret' = Return(c, "new", TRUE,
                                      [how |-> "found", latest_height |-> LatestHeight,
                                       metadata |-> found.v, others |-> metadata,
                                       fetched |-> DiscoverFetches(LatestHeight, limit, fails),
                                       fails |-> fails \cap
                                         (SearchStart(LatestHeight, limit)..LatestHeight),
                                       clean |-> \A h \in fails :
                                         h < SearchStart(LatestHeight, limit) \/ h > LatestHeight],
                                      NewArg(ns_len, start_height_hint, limit))
                     /\ UNCHANGED local
                ELSE /\ pc' = [pc EXCEPT ![c] = "creating"]
                     /\ ret' = NoReturn
                     /\ local' = [local EXCEPT ![c].fetched =
                                    DiscoverFetches(LatestHeight, limit, fails)]
                     /\ UNCHANGED metadata

\* new returns an error after discover_database has fetched its window and
\* found nothing: there is no store in memory.
Abandon(c, err, cause, heads, submitted) ==
  /\ pc' = [pc EXCEPT ![c] = "none"]
  /\ metadata' = [metadata EXCEPT ![c] = None]
  /\ search_limit' = [search_limit EXCEPT ![c] = None]
  /\ local' = [local EXCEPT ![c] = NoLocal]
  /\ ret' = Return(c, "new", FALSE, ErrVal(err, cause, heads, TRUE, submitted), NoArg)

\* The metadata new() submits for a store it creates.
FreshMetadata(latest_height, now) ==
  [start_height |-> latest_height, record_count |-> 0, last_updated |-> now]

\* new, from its own head read to the blob_submit of save_metadata.
NewCreate(c, head_ok) ==
  /\ pc[c] = "creating"
  /\ UNCHANGED <<log, md, mdret, recvars, gamevars, srvvars, loadvars, walk>>
  /\ IF ~head_ok
     THEN Abandon(c, "CelestiaError", "head", 2, FALSE) /\ UNCHANGED <<mempool, clock>>
     ELSE /\ clock < MaxOps
          /\ clock' = clock + 1
          /\ mempool' = Append(mempool,
               [c |-> c, blobs |-> <<MetadataBlob(FreshMetadata(LatestHeight, clock'), c)>>])
          /\ local' = [local EXCEPT ![c] = [NoLocal EXCEPT !.latest_height = LatestHeight]]
          /\ pc' = [pc EXCEPT ![c] = "new_submit"]
          /\ UNCHANGED <<metadata, search_limit, ret>>

\* let final_height = current_height, whatever the response says.
FinalHeightCurrent(has_height, inclusion_height, current_height) == current_height

\* let final_height = inclusion_height.unwrap_or(current_height)
FinalHeight(has_height, inclusion_height, current_height) ==
  IF has_height THEN inclusion_height ELSE current_height

\* The metadata new() keeps once save_metadata has returned.
UpdatedStoreMetadata(actual_height, now) ==
  [start_height |-> actual_height, record_count |-> 0, last_updated |-> now]

\* save_metadata after blob_submit returned, and the rest of new.  Whether
\* the response serializes to an object with a numeric "height" is the
\* ledger client's business: both cases are taken.
NewFinish(c, has_height, head_ok) ==
  /\ pc[c] = "new_saved"
  /\ UNCHANGED <<log, mempool, clock, md, mdret, recvars, gamevars, srvvars, loadvars, walk>>
  /\ IF ~head_ok
     THEN Abandon(c, "CelestiaError", "head", 3, TRUE)
     ELSE /\ metadata' = [metadata EXCEPT ![c] =
               Some(UpdatedStoreMetadata(
                      FinalHeight(has_height, local[c].height, LatestHeight), clock))]
          /\ pc' = [pc EXCEPT ![c] = "ready"]
          /\ ret' = Return(c, "new", TRUE,
                           [how |-> "created", acked |-> has_height,
                            latest_height |-> local[c].latest_height,
                            inclusion_height |-> local[c].height,
                            current_height |-> LatestHeight],
                           NoArg)
          /\ local' = [local EXCEPT ![c] = NoLocal]
          /\ UNCHANGED search_limit

\* The DatabaseClient is dropped (its process ends).
Drop(c) ==
  /\ pc[c] = "ready"
  /\ pc' = [pc EXCEPT ![c] = "none"]
  /\ metadata' = [metadata EXCEPT ![c] = None]
  /\ search_limit' = [search_limit EXCEPT ![c] = None]
  /\ ret' = NoReturn
  /\ UNCHANGED <<log, mempool, clock, local, md, mdret, recvars, gamevars, srvvars, loadvars, walk>>

\* The same update without the count: last_updated only.
UpdatedMetadataNoCount(m, now) == [m EXCEPT !.last_updated = now]

\* The same update starting the store over: start_height back to 1.
UpdatedMetadataRestart(m, now) ==
  [m EXCEPT !.record_count = m.record_count + 1, !.last_updated = now, !.start_height = 1]

\* updated_metadata.record_count += 1; updated_metadata.last_updated = now
UpdatedMetadata(m, now) ==
  [m EXCEPT !.record_count = m.record_count + 1, !.last_updated = now]

\* The same batch with the metadata first.
AddRecordBlobsMetadataFirst(c, key, data, now) ==
  (IF metadata[c].some
   THEN <<MetadataBlob(UpdatedMetadata(metadata[c].v, now), c)>>
   ELSE <<>>) \o
  <<RecordBlob(key, data, c)>>

\* The batch add_record submits: the record, then the metadata if there is one.
AddRecordBlobs(c, key, data, now) ==
  <<RecordBlob(key, data, c)>> \o
  (IF metadata[c].some
   THEN <<MetadataBlob(UpdatedMetadata(metadata[c].v, now), c)>>
   ELSE <<>>)

\* An add_record that takes the metadata out of self and does not put it back.
AddRecordMetadataTaken(c, now) == None

\* The in-memory metadata add_record leaves before it submits.
AddRecordMetadata(c, now) ==
  IF metadata[c].some THEN Some(UpdatedMetadata(metadata[c].v, now)) ELSE metadata[c]

\* add_record, up to its blob_submit.
AddRecord(c, key, data) ==
  /\ pc[c] = "ready"
  /\ clock < MaxOps
  /\ clock' = clock + 1
  /\ mempool' = Append(mempool, [c |-> c, blobs |-> AddRecordBlobs(c, key, data, clock')])
  /\ metadata' = [metadata EXCEPT ![c] = AddRecordMetadata(c, clock')]
  /\ local' = [local EXCEPT ![c] = [key |-> key, data |-> data, before |-> metadata[c]]]
  /\ pc' = [pc EXCEPT ![c] = "add_submit"]
  /\ ret' = NoReturn
  /\ UNCHANGED <<log, search_limit, md, mdret, recvars, gamevars, srvvars, loadvars, walk>>

\* add_record once blob_submit has returned Ok.
AddRecordReturn(c) ==
  /\ pc[c] = "add_acked"
  /\ pc' = [pc EXCEPT ![c] = "ready"]
  /\ ret' = Return(c, "add_record", TRUE, local[c], [key |-> local[c].key, hint |-> None])
  /\ local' = [local EXCEPT ![c] = NoLocal]
  /\ UNCHANGED <<log, mempool, clock, metadata, search_limit, md, mdret, recvars, gamevars, srvvars, loadvars, walk>>

\* What get_record is told about the call completed just before it, when
\* that was a successful add_record of its own client: the record written and
\* whether the fetch of its position succeeds during this scan.
NoAfter == [add |-> FALSE, key |-> "", data |-> 0, fetched |-> TRUE]

PositionOf(key, data) ==
  CHOOSE h \in DOMAIN log :
    \E i \in DOMAIN log[h] :
      DecodesAsRecord(log[h][i]) /\ AsRecord(log[h][i]) = [key |-> key, data |-> data]

AfterAdd(c, fails) ==
  IF ret.op = "add_record" /\ ret.ok /\ ret.c = c
  THEN [add |-> TRUE, key |-> ret.val.key, data |-> ret.val.data,
        fetched |-> PositionOf(ret.val.key, ret.val.data) \notin fails]
  ELSE NoAfter

\* A get_record that gives up its metadata when the head read fails.
GetRecordForget(c, key, head_ok, fails) ==
  /\ pc[c] = "ready"
  /\ ret' = IF ~head_ok
            THEN Return(c, "get_record", FALSE, ErrVal("CelestiaError", "head", 1, FALSE, FALSE),
                        [key |-> key, hint |-> None])
            ELSE Return(c, "get_record", TRUE,
                        [found |-> SearchRecord(LatestHeight, ScanStart(c), fails, key),
                         latest_height |-> LatestHeight, after |-> AfterAdd(c, fails),
                         fails |-> fails \cap (ScanStart(c)..LatestHeight)],
                        [key |-> key, hint |-> None])
  /\ metadata' = IF head_ok THEN metadata ELSE [metadata EXCEPT ![c] = None]
  /\ UNCHANGED <<log, mempool, clock, pc, search_limit, local, md, mdret, recvars, gamevars, srvvars, loadvars, walk>>

GetRecord(c, key, head_ok, fails) ==
  /\ pc[c] = "ready"
  /\ ret' = IF ~head_ok
            THEN Return(c, "get_record", FALSE, ErrVal("CelestiaError", "head", 1, FALSE, FALSE),
                        [key |-> key, hint |-> None])
            ELSE Return(c, "get_record", TRUE,
                        [found |-> SearchRecord(LatestHeight, ScanStart(c), fails, key),
                         latest_height |-> LatestHeight, after |-> AfterAdd(c, fails),
                         fails |-> fails \cap (ScanStart(c)..LatestHeight)],
                        [key |-> key, hint |-> None])
  /\ UNCHANGED <<log, mempool, clock, pc, metadata, search_limit, local, md, mdret, recvars, gamevars, srvvars, loadvars, walk>>

ListRecords(c, head_ok, fails) ==
  /\ pc[c] = "ready"
  /\ ret' = IF ~head_ok
            THEN Return(c, "list_records", FALSE, ErrVal("CelestiaError", "head", 1, FALSE, FALSE),
                        NoArg)
            ELSE Return(c, "list_records", TRUE,
                        [records |-> ScanRecords(LatestHeight, ScanStart(c), fails, <<>>),
                         latest_height |-> LatestHeight,
                         fails |-> fails \cap (ScanStart(c)..LatestHeight)],
                        NoArg)
  /\ UNCHANGED <<log, mempool, clock, pc, metadata, search_limit, local, md, mdret, recvars, gamevars, srvvars, loadvars, walk>>

\* ------------------------------------------------------------ ledger
\* The blobs of the submissions chosen for a block, in submission order.
RECURSIVE BlockOf(_, _, _)
BlockOf(pool, chosen, i) ==
  IF i > Len(pool) THEN <<>>
  ELSE (IF i \in chosen THEN pool[i].blobs ELSE <<>>) \o BlockOf(pool, chosen, i + 1)

RECURSIVE Remaining(_, _, _)
Remaining(pool, chosen, i) ==
  IF i > Len(pool) THEN <<>>
  ELSE (IF i \in chosen THEN <<>> ELSE <<pool[i]>>) \o Remaining(pool, chosen, i + 1)

\* The ledger produces the next block, with the chosen pending submissions
\* in it (none: a block without blobs of this namespace).  blob_submit
\* returns Ok to each of their callers.
ProduceBlockUpTo(chosen, max_height) ==
  /\ Len(log) < max_height
  /\ chosen \subseteq DOMAIN mempool
  /\ log' = Append(log, BlockOf(mempool, chosen, 1))
  /\ mempool' = Remaining(mempool, chosen, 1)
  /\ LET included == {mempool[i].c : i \in chosen}
     IN /\ pc' = [c \in Clients |->
                   IF c \notin included THEN pc[c]
                   ELSE IF pc[c] = "new_submit" THEN "new_saved" ELSE "add_acked"]
        /\ local' = [c \in Clients |->
                   IF c \in included /\ pc[c] = "new_submit"
                   THEN [local[c] EXCEPT !.height = Len(log) + 1] ELSE local[c]]
  /\ UNCHANGED <<clock, metadata, search_limit, ret, md, mdret, recvars, gamevars, srvvars, loadvars, walk>>

ProduceBlock(chosen) == ProduceBlockUpTo(chosen, MaxHeight)

\* A failed blob_submit taken for a successful one.
RejectSubmitSwallowed(i) ==
  /\ i \in DOMAIN mempool
  /\ mempool' = Remaining(mempool, {i}, 1)
  /\ LET c == mempool[i].c
     IN pc' = [pc EXCEPT ![c] = IF pc[c] = "new_submit" THEN "new_saved" ELSE "add_acked"]
  /\ UNCHANGED <<metadata, search_limit, local, ret>>
  /\ UNCHANGED <<log, clock, md, mdret, recvars, gamevars, srvvars, loadvars, walk>>

\* The ledger refuses a pending submission, or the call fails: blob_submit
\* returns Err to its caller and nothing is included.
RejectSubmit(i) ==
  /\ i \in DOMAIN mempool
  /\ mempool' = Remaining(mempool, {i}, 1)
  /\ LET c == mempool[i].c
     IN IF pc[c] = "new_submit"
        THEN Abandon(c, "CelestiaError", "submit", 2, TRUE)
        ELSE /\ pc' = [pc EXCEPT ![c] = "ready"]
             /\ ret' = Return(c, "add_record", FALSE, local[c],
                              [key |-> local[c].key, hint |-> None])
             /\ local' = [local EXCEPT ![c] = NoLocal]
             /\ UNCHANGED <<metadata, search_limit>>
  /\ UNCHANGED <<log, clock, md, mdret, recvars, gamevars, srvvars, loadvars, walk>>

\* ------------------------------------------- the scans, fetch by fetch
\* discover_database, get_record and list_records as the tasks they are:
\* one head read, then one get_blobs_at_height per turn of the loop, the
\* ledger producing blocks in between.
WalkBlocks ==
  {<<>>, <<RecordBlob("k1", 1, 0)>>, <<MetadataBlob(FreshMetadata(1, 0), 0)>>}

\* The range without .rev().
Fwd(start_height, latest_height) ==
  [i \in 1..(latest_height - start_height + 1) |-> start_height + i - 1]

\* (start_height..=latest_height).rev(), as the sequence the iterator yields.
Rev(start_height, latest_height) ==
  [i \in 1..(latest_height - start_height + 1) |-> latest_height - i + 1]

NoWalk ==
  [op |-> "none", at |-> "idle", key |-> "", latest_height |-> 0, start_height |-> 0,
   iter |-> <<>>, fetched |-> <<>>, heads |-> 0, advanced |-> 0,
   ok |-> TRUE, result |-> None]
nonwalk == <<mempool, clock, pc, metadata, search_limit, local, ret,
             mdvars, recvars, gamevars, srvvars, loadvars>>

\* The head read and the range: start_height is the store's (start, any
\* value a metadata blob may carry) or, for discovery, the window's low end.
WalkBegin(op, key, start, limit, head_ok) ==
  /\ walk.at = "idle"
  /\ walk' =
       IF ~head_ok
       THEN [NoWalk EXCEPT !.op = op, !.at = "returned", !.key = key, !.heads = 1,
                           !.ok = FALSE, !.result = "CelestiaError"]
       ELSE LET start_height ==
                  IF op = "discover_database" THEN SearchStart(LatestHeight, limit)
                  ELSE start
            IN [NoWalk EXCEPT !.op = op, !.at = "loop", !.key = key, !.heads = 1,
                              !.latest_height = LatestHeight,
                              !.start_height = start_height,
                              !.iter = Rev(start_height, LatestHeight),
                              !.result = IF op = "list_records" THEN <<>> ELSE None]
  /\ UNCHANGED <<log, nonwalk>>

\* One turn of the loop: the iterator yields a height, get_blobs_at_height
\* is called on it, and the match on its result runs.
WalkFetch(fetch_ok) ==
  /\ walk.at = "loop" /\ walk.iter # <<>>
  /\ LET height == Head(walk.iter)
         r == GetBlobsAtHeight(height, IF fetch_ok THEN {} ELSE {height})
         m == IF ~r.ok THEN None
              ELSE IF walk.op = "discover_database" THEN FirstMetadata(r.blobs)
              ELSE IF walk.op = "get_record" THEN FirstRecord(r.blobs, walk.key)
              ELSE None
         next == [walk EXCEPT !.iter = Tail(walk.iter),
                              !.fetched = Append(walk.fetched, height)]
     IN walk' =
          IF m.some THEN [next EXCEPT !.at = "returned", !.result = m]
          ELSE IF walk.op = "list_records" /\ r.ok
          THEN [next EXCEPT !.result = CollectRecords(r.blobs, walk.result)]
          ELSE next
  /\ UNCHANGED <<log, nonwalk>>

\* The iterator is exhausted: Ok(None), or Ok of the collected records.
WalkReturn ==
  /\ walk.at = "loop" /\ walk.iter = <<>>
  /\ walk' = [walk EXCEPT !.at = "returned"]
  /\ UNCHANGED <<log, nonwalk>>

\* The ledger produces a block; advanced counts those produced during the
\* scan.
WalkProduceBlock(block) ==
  /\ Len(log) < MaxHeight
  /\ log' = Append(log, block)
  /\ walk' = IF walk.at = "loop" THEN [walk EXCEPT !.advanced = walk.advanced + 1]
             ELSE walk
  /\ UNCHANGED nonwalk

WalkInit == walk = NoWalk

\* -------------------------------------------- schema.rs DatabaseMetadata
Ids == {"a", "b"}
IndexHeights == {1, 2}
EmptyIndex == [i \in {} |-> 0]

\* DatabaseMetadata::new
MetadataNew(now) ==
  [record_count |-> 0, index |-> EmptyIndex, deleted |-> {}, last_updated |-> now]

\* An insert that keeps the height an id already has (entry().or_insert).
IndexInsertKeep(index, record_id, height) ==
  [i \in DOMAIN index \cup {record_id} |->
     IF i \in DOMAIN index THEN index[i] ELSE height]

\* self.index.insert(record_id, height)
IndexInsert(index, record_id, height) ==
  [i \in DOMAIN index \cup {record_id} |-> IF i = record_id THEN height ELSE index[i]]

\* self.index.remove(record_id)
IndexRemove(index, record_id) ==
  [i \in DOMAIN index \ {record_id} |-> index[i]]

\* DatabaseMetadata::add_record
MetadataAddRecord(m, record_id, height, now) ==
  [m EXCEPT !.record_count = m.record_count + 1,
            !.index = IndexInsert(m.index, record_id, height),
            !.last_updated = now]

\* A delete_record that forgets the tombstone.
MetadataDeleted_NoTombstone(m, record_id, now) ==
  [m EXCEPT !.index = IndexRemove(m.index, record_id),
            !.record_count = m.record_count - 1,
            !.last_updated = now]

\* DatabaseMetadata::delete_record, the branch that found the id in index
MetadataDeleted(m, record_id, now) ==
  [m EXCEPT !.index = IndexRemove(m.index, record_id),
            !.record_count = m.record_count - 1,
            !.deleted = m.deleted \cup {record_id},
            !.last_updated = now]

\* A delete_record that does not look at what index.remove returned.
MetadataDeleteRecordUnchecked(m, record_id, now) ==
  [m |-> MetadataDeleted(m, record_id, now), result |-> record_id \in DOMAIN m.index]

\* A delete_record that stamps last_updated whether or not it found the id.
MetadataDeleteRecordTouch(m, record_id, now) ==
  IF record_id \in DOMAIN m.index
  THEN [m |-> MetadataDeleted(m, record_id, now), result |-> TRUE]
  ELSE [m |-> [m EXCEPT !.last_updated = now], result |-> FALSE]

\* DatabaseMetadata::delete_record: the metadata it leaves and what it returns
MetadataDeleteRecord(m, record_id, now) ==
  IF record_id \in DOMAIN m.index
  THEN [m |-> MetadataDeleted(m, record_id, now), result |-> TRUE]
  ELSE [m |-> m, result |-> FALSE]

\* DatabaseMetadata::record_exists
RecordExists(m, record_id) ==
  record_id \in DOMAIN m.index /\ record_id \notin m.deleted

\* DatabaseMetadata::get_record_height
GetRecordHeight(m, record_id) ==
  IF record_id \in m.deleted THEN None
  ELSE IF record_id \in DOMAIN m.index THEN Some(m.index[record_id]) ELSE None

\* A completed DatabaseMetadata call, the number of calls so far (the clock
\* last_updated reads) and the ids whose delete_record has returned true.
MdReturn(op, id, val, tombstoned) ==
  [op |-> op, id |-> id, val |-> val, calls |-> mdret.calls + 1, tombstoned |-> tombstoned]

MdAddRecord(record_id, height) ==
  /\ mdret.calls < MaxMdOps
  /\ md' = MetadataAddRecord(md, record_id, height, mdret.calls + 1)
  /\ mdret' = MdReturn("add_record", record_id, height, mdret.tombstoned)
  /\ UNCHANGED <<dbvars, recvars, gamevars, srvvars, loadvars, walk>>

MdDeleteRecord(record_id) ==
  /\ mdret.calls < MaxMdOps
  /\ LET r == MetadataDeleteRecord(md, record_id, mdret.calls + 1)
     IN /\ md' = r.m
        /\ mdret' = MdReturn("delete_record", record_id, r.result,
                             IF r.result THEN mdret.tombstoned \cup {record_id}
                             ELSE mdret.tombstoned)
  /\ UNCHANGED <<dbvars, recvars, gamevars, srvvars, loadvars, walk>>

MdRecordExists(record_id) ==
  /\ mdret.calls < MaxMdOps
  /\ mdret' = MdReturn("record_exists", record_id, RecordExists(md, record_id), mdret.tombstoned)
  /\ UNCHANGED <<md, dbvars, recvars, gamevars, srvvars, loadvars, walk>>

MdGetRecordHeight(record_id) ==
  /\ mdret.calls < MaxMdOps
  /\ mdret' = MdReturn("get_record_height", record_id, GetRecordHeight(md, record_id),
                       mdret.tombstoned)
  /\ UNCHANGED <<md, dbvars, recvars, gamevars, srvvars, loadvars, walk>>

\* ------------------------------------------------- schema.rs Record
Times == 0..MaxTime
RecordIds == {"u1", "u2"}
RecordDatas == {"d1", "d2"}

\* Record::new
RecordNew(id, data, now) ==
  [id |-> id, created_at |-> now, updated_at |-> now, data |-> data]

\* Record::update
RecordUpdate(r, data, now) == [r EXCEPT !.data = data, !.updated_at = now]

\* Utc::now() reads the system's wall clock: nothing orders a reading after
\* the one before it, two readings can be equal and the clock can be set back.
RecNew(id, data, now) ==
  /\ rec' = Some(RecordNew(id, data, now))
  /\ recret' = [op |-> "new", before |-> rec, data |-> data]
  /\ UNCHANGED <<dbvars, mdvars, gamevars, srvvars, loadvars, walk>>

RecUpdate(data, now) ==
  /\ rec.some
  /\ rec' = Some(RecordUpdate(rec.v, data, now))
  /\ recret' = [op |-> "update", before |-> rec, data |-> data]
  /\ UNCHANGED <<dbvars, mdvars, gamevars, srvvars, loadvars, walk>>

RecordInit ==
  /\ rec = None
  /\ recret = [op |-> "none", before |-> None, data |-> ""]

\* -------------------------------------------- main.rs handle_connection
\* One task per accepted connection.  The Game is the number of moves applied
\* to it; a gameState message carries that number and whether it reports a
\* move.  Messages other than "move" are ignored by the loop and leave every
\* variable as it is.
Addrs == {1, 2}
NoConn == [at |-> "idle", state |-> 0]
GameStateMsg(state, moved) == [type |-> "gameState", state |-> state, moved |-> moved]
nongame == <<dbvars, mdvars, recvars, srvvars, loadvars, walk>>

At(a, where) == conn[a].at = where
Goto(a, where) == conn' = [conn EXCEPT ![a].at = where]

\* tokio_tungstenite::accept_async
Accept(a, ok) ==
  /\ At(a, "idle")
  /\ Goto(a, IF ok THEN "initial_state" ELSE "closed")
  /\ UNCHANGED <<game, game_lock, peer_map_lock, peer_map, sent, nongame>>

\* game.lock().await, at the start of the connection and for a move.
LockGame(a) ==
  /\ conn[a].at \in {"initial_state", "move"}
  /\ game_lock = 0
  /\ game_lock' = a
  /\ UNCHANGED <<game, peer_map_lock, peer_map, conn, sent, nongame>>

\* peer_map.lock().await, wherever the task takes it.
LockPeerMap(a) ==
  /\ conn[a].at \in {"insert", "send_initial", "ack", "verifying", "verified",
                      "broadcast", "error_msg", "remove"}
  /\ peer_map_lock = 0
  /\ peer_map_lock' = a
  /\ UNCHANGED <<game, game_lock, peer_map, conn, sent, nongame>>

\* GameState::from_game(&current_game, None)
InitialState(a) ==
  /\ At(a, "initial_state") /\ game_lock = a
  /\ conn' = [conn EXCEPT ![a] = [at |-> "insert", state |-> game]]
  /\ UNCHANGED <<game, game_lock, peer_map_lock, peer_map, sent, nongame>>

\* The insert without the block around it: the guard lives on.
InsertPeerKeepGuard(a) ==
  /\ At(a, "insert") /\ peer_map_lock = a
  /\ peer_map' = peer_map \cup {a}
  /\ Goto(a, "send_initial")
  /\ UNCHANGED <<game, game_lock, peer_map_lock, sent, nongame>>

\* { peer_map.insert(addr, ws_sender) }
InsertPeer(a) ==
  /\ At(a, "insert") /\ peer_map_lock = a
  /\ peer_map' = peer_map \cup {a}
  /\ peer_map_lock' = 0
  /\ Goto(a, "send_initial")
  /\ UNCHANGED <<game, game_lock, sent, nongame>>

\* The initial gameState is sent with both guards held; an Err returns, and
\* leaves the sender in the PeerMap.
SendInitialState(a, ok) ==
  /\ At(a, "send_initial") /\ peer_map_lock = a
  /\ peer_map_lock' = 0
  /\ game_lock' = 0
  /\ IF ok
     THEN /\ sent' = [sent EXCEPT ![a] = Append(@, GameStateMsg(conn[a].state, FALSE))]
          /\ Goto(a, "receive")
     ELSE /\ Goto(a, "closed")
          /\ UNCHANGED sent
  /\ UNCHANGED <<game, peer_map, nongame>>

\* ws_receiver.next() yields a "move" message that parses.
ReceiveMove(a) ==
  /\ At(a, "receive")
  /\ Goto(a, "move")
  /\ UNCHANGED <<game, game_lock, peer_map_lock, peer_map, sent, nongame>>

\* ws_receiver.next() yields None or an Err: the loop ends.
ReceiveClose(a) ==
  /\ At(a, "receive")
  /\ Goto(a, "remove")
  /\ UNCHANGED <<game, game_lock, peer_map_lock, peer_map, sent, nongame>>

\* A make_move whose guard is dropped as soon as the move is applied.
MakeMoveRelease(a, legal) ==
  /\ At(a, "move") /\ game_lock = a
  /\ game_lock' = 0
  /\ IF legal
     THEN /\ game < MaxMoves
          /\ game' = game + 1
          /\ conn' = [conn EXCEPT ![a] = [at |-> "head", state |-> game + 1]]
     ELSE /\ Goto(a, "receive")
          /\ UNCHANGED game
  /\ UNCHANGED <<peer_map_lock, peer_map, sent, nongame>>

\* current_game.make_move(chess_move): a legal move is applied and the guard
\* stays alive to the end of the block; an illegal one ends the block.
MakeMove(a, legal) ==
  /\ At(a, "move") /\ game_lock = a
  /\ IF legal
     THEN /\ game < MaxMoves
          /\ game' = game + 1
          /\ conn' = [conn EXCEPT ![a] = [at |-> "head", state |-> game + 1]]
          /\ UNCHANGED game_lock
     ELSE /\ game_lock' = 0
          /\ Goto(a, "receive")
          /\ UNCHANGED game
  /\ UNCHANGED <<peer_map_lock, peer_map, sent, nongame>>

\* client.header_network_head().await.unwrap(): an Err panics the task, which
\* drops its guards and never reaches peer_map.remove.
HeaderNetworkHead(a, ok) ==
  /\ conn[a].at \in {"head", "head2"}
  /\ IF ok
     THEN /\ Goto(a, IF At(a, "head") THEN "submit" ELSE "verify")
          /\ UNCHANGED game_lock
     ELSE /\ Goto(a, "panicked")
          /\ game_lock' = 0
  /\ UNCHANGED <<game, peer_map_lock, peer_map, sent, nongame>>

\* client.blob_submit(&[blob], ..).await
BlobSubmit(a, ok) ==
  /\ At(a, "submit")
  /\ Goto(a, IF ok THEN "ack" ELSE "error_msg")
  /\ UNCHANGED <<game, game_lock, peer_map_lock, peer_map, sent, nongame>>

\* The "submitted" celestiaUpdate to the task's own sender; an Err is
\* `continue`: the rest of the block, the broadcast included, is skipped.
SendCelestiaUpdate(a, ok) ==
  /\ At(a, "ack") /\ peer_map_lock = a
  /\ peer_map_lock' = 0
  /\ IF ok
     THEN Goto(a, "verifying") /\ UNCHANGED game_lock
     ELSE Goto(a, "receive") /\ game_lock' = 0
  /\ UNCHANGED <<game, peer_map, sent, nongame>>

\* The "verifying" celestiaUpdate (let _ = send).
SendVerifying(a) ==
  /\ At(a, "verifying") /\ peer_map_lock = a
  /\ peer_map_lock' = 0
  /\ Goto(a, "sleep")
  /\ UNCHANGED <<game, game_lock, peer_map, sent, nongame>>

\* tokio::time::sleep(5 s)
Sleep(a) ==
  /\ At(a, "sleep")
  /\ Goto(a, "head2")
  /\ UNCHANGED <<game, game_lock, peer_map_lock, peer_map, sent, nongame>>

\* for h in (height..=current_height).rev() { client.blob_get_all(h, ..) }:
\* whatever it finds decides only the text of the next celestiaUpdate.
BlobGetAll(a) ==
  /\ At(a, "verify")
  /\ Goto(a, "verified")
  /\ UNCHANGED <<game, game_lock, peer_map_lock, peer_map, sent, nongame>>

\* The "verified" or "not yet confirmed" celestiaUpdate (let _ = send).
SendVerified(a) ==
  /\ At(a, "verified") /\ peer_map_lock = a
  /\ peer_map_lock' = 0
  /\ Goto(a, "broadcast")
  /\ UNCHANGED <<game, game_lock, peer_map, sent, nongame>>

\* for (_, sender) in peer_map.iter_mut() { sender.send(state_msg) }: a send
\* that fails is logged; then both guards go out of scope.
Broadcast(a, delivered) ==
  /\ At(a, "broadcast") /\ peer_map_lock = a
  /\ delivered \subseteq peer_map
  /\ sent' = [p \in Addrs |->
                IF p \in delivered THEN Append(sent[p], GameStateMsg(conn[a].state, TRUE))
                ELSE sent[p]]
  /\ peer_map_lock' = 0
  /\ game_lock' = 0
  /\ Goto(a, "receive")
  /\ UNCHANGED <<game, peer_map, nongame>>

\* The "failed to submit" celestiaUpdate; the block ends without a broadcast.
SendError(a) ==
  /\ At(a, "error_msg") /\ peer_map_lock = a
  /\ peer_map_lock' = 0
  /\ game_lock' = 0
  /\ Goto(a, "receive")
  /\ UNCHANGED <<game, peer_map, sent, nongame>>

\* peer_map.remove(&addr), after the loop.
RemovePeer(a) ==
  /\ At(a, "remove") /\ peer_map_lock = a
  /\ peer_map' = peer_map \ {a}
  /\ peer_map_lock' = 0
  /\ Goto(a, "closed")
  /\ UNCHANGED <<game, game_lock, sent, nongame>>

GameInit ==
  /\ game = 0
  /\ game_lock = 0
  /\ peer_map_lock = 0
  /\ peer_map = {}
  /\ conn = [a \in Addrs |-> NoConn]
  /\ sent = [a \in Addrs |-> <<>>]

\* -------------------------------------------------- server.rs GameServer
\* One handle_connection task per client id.  std::sync::Mutex guards are
\* taken and dropped between two awaits, so each step below runs from one
\* await of the task to the next.
ClientIds == {1, 2}

\* A GameState of a finished game.
GameStateOver ==
  [fen |-> "start", last_move |-> None, game_over |-> TRUE, winner |-> Some("White")]

\* GameState::new (lib.rs); the fen is the starting position.
GameStateNew ==
  [fen |-> "start", last_move |-> None, game_over |-> FALSE, winner |-> None]

\* GameMessage::GameState(state) and MoveResponse { game_state: Some(state) }
GameStateMessage(state) == [type |-> "GameState", state |-> state]
MoveResponseMessage(state) == [type |-> "MoveResponse", state |-> state]

SrvNoConn == [at |-> "idle", current_state |-> GameStateNew]
SrvAt(i, where) == sconn[i].at = where
SrvGoto(i, where) == sconn' = [sconn EXCEPT ![i].at = where]
nonsrv == <<dbvars, mdvars, recvars, gamevars, loadvars, walk>>

\* for (_, tx) in clients.lock().unwrap().iter() { let _ = tx.send(msg) }:
\* a send to a channel whose receiver is gone is an Err, which is dropped.
BroadcastTo(msg) ==
  [i \in ClientIds |->
     IF i \in clients /\ sconn[i].at \in {"send_state", "loop"}
     THEN Append(rx[i], msg) ELSE rx[i]]

\* accept_async(stream).await?, then clients.insert(client_id, tx) and
\* game_state.lock().unwrap().clone(), up to the send of the state.
SrvAccept(i, ok) ==
  /\ SrvAt(i, "idle")
  /\ IF ok
     THEN /\ clients' = clients \cup {i}
          /\ sconn' = [sconn EXCEPT ![i] = [at |-> "send_state", current_state |-> game_state]]
     ELSE /\ SrvGoto(i, "closed")
          /\ UNCHANGED clients
  /\ UNCHANGED <<game_state, rx, ws_out, handled, nonsrv>>

\* ws_sender.send(Message::Text(state_msg)).await?: an Err returns, and
\* leaves the sender in clients.
SrvSendState(i, ok) ==
  /\ SrvAt(i, "send_state")
  /\ IF ok
     THEN /\ ws_out' = [ws_out EXCEPT ![i] =
                             Append(@, GameStateMessage(sconn[i].current_state))]
          /\ SrvGoto(i, "loop")
     ELSE /\ SrvGoto(i, "closed")
          /\ UNCHANGED ws_out
  /\ UNCHANGED <<clients, game_state, rx, handled, nonsrv>>

\* GameMessage::Move(move_str): the state is not changed, a MoveResponse with
\* a clone of it goes to every sender in clients.
SrvMove(i) ==
  /\ SrvAt(i, "loop")
  /\ handled < MaxHandled
  /\ handled' = handled + 1
  /\ rx' = BroadcastTo(MoveResponseMessage(game_state))
  /\ UNCHANGED <<clients, game_state, sconn, ws_out, nonsrv>>

\* GameMessage::NewGame: *state = GameState::new(), and a GameState message
\* with it goes to every sender in clients.
SrvNewGame(i) ==
  /\ SrvAt(i, "loop")
  /\ handled < MaxHandled
  /\ handled' = handled + 1
  /\ game_state' = GameStateNew
  /\ rx' = BroadcastTo(GameStateMessage(GameStateNew))
  /\ UNCHANGED <<clients, sconn, ws_out, nonsrv>>

\* Message::Close(_) => break, then clients.remove(&client_id).
SrvClose(i) ==
  /\ SrvAt(i, "loop")
  /\ clients' = clients \ {i}
  /\ SrvGoto(i, "closed")
  /\ UNCHANGED <<game_state, rx, ws_out, handled, nonsrv>>

\* match msg? on an Err: handle_connection returns it, without the remove.
SrvReceiveErr(i) ==
  /\ SrvAt(i, "loop")
  /\ SrvGoto(i, "closed")
  /\ UNCHANGED <<clients, game_state, rx, ws_out, handled, nonsrv>>

\* Ok(msg) = rx.recv() => ws_sender.send(msg).await?
SrvForward(i, ok) ==
  /\ SrvAt(i, "loop")
  /\ rx[i] # <<>>
  /\ rx' = [rx EXCEPT ![i] = Tail(@)]
  /\ IF ok
     THEN /\ ws_out' = [ws_out EXCEPT ![i] = Append(@, Head(rx[i]))]
          /\ UNCHANGED sconn
     ELSE /\ SrvGoto(i, "closed")
          /\ UNCHANGED ws_out
  /\ UNCHANGED <<clients, game_state, handled, nonsrv>>

\* GameServer::new
ServerInit ==
  /\ clients = {}
  /\ game_state = GameStateNew
  /\ sconn = [i \in ClientIds |-> SrvNoConn]
  /\ rx = [i \in ClientIds |-> <<>>]
  /\ ws_out = [i \in ClientIds |-> <<>>]
  /\ handled = 0

\* ----------------------------------------- main.rs get_latest_game_state
\* What blob_get_all answers for one height, and what the last blob of a
\* non-empty answer is: a GameState whose fen Game::from_str accepts, one
\* whose fen it rejects, or bytes that are no GameState.
Fens == {"fen", "bad fen"}
Continuing == {"None", "Some(empty)"}
Fetches == Continuing \cup {"Err", "undecodable"} \cup Fens

\* A look-back that stops at height 1.
LookBackStartOne(height) == IF height > LookBack + 1 THEN height - LookBack ELSE 1

\* height.saturating_sub(10)
LookBackStart(height) == IF height > LookBack THEN height - LookBack ELSE 0

NoResult == [ok |-> TRUE, state |-> None, err |-> "pending"]
OkResult(state) == [ok |-> TRUE, state |-> state, err |-> ""]
ErrResult(err) == [ok |-> FALSE, state |-> None, err |-> err]
NoCall == [at |-> "idle", height |-> 0, h |-> 0, seen |-> <<>>, result |-> NoResult]
nonload == <<dbvars, mdvars, recvars, gamevars, srvvars, walk>>

\* main: client.header_network_head().await?.height(), then the call.
MainHead(height) ==
  /\ gls.at = "idle"
  /\ gls' = [NoCall EXCEPT !.at = "scanning", !.height = height, !.h = height]
  /\ UNCHANGED <<initial_game, nonload>>

\* One turn of for h in (height.saturating_sub(10)..=height).rev(): the
\* blob_get_all of h and what follows from its answer.  seen lists the
\* answers in the order of the calls.
FetchGameState(answer) ==
  /\ gls.at = "scanning"
  /\ LET seen == Append(gls.seen, [h |-> gls.h, answer |-> answer])
     IN gls' =
          IF answer = "Err"
          THEN [gls EXCEPT !.at = "returned", !.seen = seen,
                           !.result = ErrResult("Failed to retrieve blobs")]
          ELSE IF answer = "undecodable"
          THEN [gls EXCEPT !.at = "returned", !.seen = seen,
                           !.result = ErrResult("Failed to deserialize game state")]
          ELSE IF answer \in Fens
          THEN [gls EXCEPT !.at = "returned", !.seen = seen,
                           !.result = OkResult(Some(answer))]
          ELSE IF gls.h = LookBackStart(gls.height)
          THEN [gls EXCEPT !.at = "returned", !.seen = seen, !.result = OkResult(None)]
          ELSE [gls EXCEPT !.h = gls.h - 1, !.seen = seen]
  /\ UNCHANGED <<initial_game, nonload>>

\* let initial_game = if let Ok(Some(state)) = .. { Game::from_str(&state.fen)
\* or Game::new() } else { Game::new() }
MainInitialGame ==
  /\ gls.at = "returned"
  /\ gls' = [gls EXCEPT !.at = "serving"]
  /\ initial_game' =
       IF gls.result.ok /\ gls.result.state.some /\ gls.result.state.v = "fen"
       THEN Some(gls.result.state.v)
       ELSE Some("new game")
  /\ UNCHANGED nonload

LoadInit ==
  /\ gls = NoCall
  /\ initial_game = None

\* ------------------------------------------------------ specification
MdInit ==
  /\ md = MetadataNew(0)
  /\ mdret = [op |-> "new", id |-> "", val |-> FALSE, calls |-> 0, tombstoned |-> {}]

Init ==
  /\ log = << <<>> >>
  /\ mempool = <<>>
  /\ clock = 0
  /\ pc = [c \in Clients |-> "none"]
  /\ metadata = [c \in Clients |-> None]
  /\ search_limit = [c \in Clients |-> None]
  /\ local = [c \in Clients |-> NoLocal]
  /\ ret = NoReturn
  /\ MdInit
  /\ RecordInit
  /\ GameInit
  /\ ServerInit
  /\ LoadInit
  /\ WalkInit

Hints == {None, Some(2)}

\* The payload of the n-th call that reads the clock: every add_record call
\* writes a payload of its own, so a record names the call that wrote it.
Payload(n) == n

\* One writer: client 1 alone, constructed, used, dropped and constructed again.
Next ==
  \/ \E n \in NsLens, h \in Hints :
       \E ok \in IF n = NamespaceLen THEN BOOLEAN ELSE {TRUE} :
         \E l \in IF ok THEN Limits ELSE {None}, f \in IF ok THEN FailSets ELSE {{}} :
           New(1, n, h, l, ok, f)
  \/ \E ok \in BOOLEAN : NewCreate(1, ok)
  \/ \E has \in BOOLEAN, ok \in BOOLEAN : NewFinish(1, has, ok)
  \/ Drop(1)
  \/ \E k \in Keys : AddRecord(1, k, Payload(clock + 1))
  \/ AddRecordReturn(1)
  \/ \E k \in Keys, ok \in BOOLEAN : \E f \in IF ok THEN FailSets ELSE {{}} :
       GetRecord(1, k, ok, f)
  \/ \E ok \in BOOLEAN : \E f \in IF ok THEN FailSets ELSE {{}} : ListRecords(1, ok, f)
  \/ \E chosen \in SUBSET {1} : ProduceBlock(chosen)
  \/ RejectSubmit(1)

Spec == Init /\ [][Next]_vars

\* One writer and no failing call, over a ledger that goes on producing
\* blocks while the store is not in use: the client is dropped and a later
\* one is constructed for the same namespace.
NextLater ==
  \/ \E l \in Limits : New(1, NamespaceLen, None, l, TRUE, {})
  \/ NewCreate(1, TRUE)
  \/ \E has \in BOOLEAN : NewFinish(1, has, TRUE)
  \/ Drop(1)
  \/ \E k \in Keys : AddRecord(1, k, Payload(clock + 1))
  \/ AddRecordReturn(1)
  \/ \E k \in Keys : GetRecord(1, k, TRUE, {})
  \/ ListRecords(1, TRUE, {})
  \/ \E chosen \in SUBSET {1} : ProduceBlockUpTo(chosen, MaxLaterHeight)

SpecLater == Init /\ [][NextLater]_vars

\* Two writers on one namespace, no failing call.
NextTwo ==
  \/ \E c \in Clients, l \in Limits : New(c, NamespaceLen, None, l, TRUE, {})
  \/ \E c \in Clients : NewCreate(c, TRUE)
  \/ \E c \in Clients, has \in BOOLEAN : NewFinish(c, has, TRUE)
  \/ \E c \in Clients : Drop(c)
  \/ \E c \in Clients, k \in Keys : AddRecord(c, k, Payload(clock + 1))
  \/ \E c \in Clients : AddRecordReturn(c)
  \/ \E c \in Clients, k \in Keys : GetRecord(c, k, TRUE, {})
  \/ \E c \in Clients : ListRecords(c, TRUE, {})
  \/ \E chosen \in SUBSET (1..Cardinality(Clients)) : ProduceBlock(chosen)

SpecTwo == Init /\ [][NextTwo]_vars

\* A DatabaseMetadata value under any sequence of its calls.
NextMeta ==
  \/ \E id \in Ids, h \in IndexHeights : MdAddRecord(id, h)
  \/ \E id \in Ids : MdDeleteRecord(id)
  \/ \E id \in Ids : MdRecordExists(id)
  \/ \E id \in Ids : MdGetRecordHeight(id)

SpecMeta == Init /\ [][NextMeta]_vars

\* The scans of one constructed client over any log: blocks of up to two
\* blobs, written by anyone, under any start_height.
ScanBlobs ==
  {RecordBlob("k1", Payload(1), 0), RecordBlob("k1", Payload(2), 0),
   RecordBlob("k2", Payload(1), 0),
   MetadataBlob(FreshMetadata(1, 0), 0)}
ScanBlocks ==
  {<<>>} \cup {<<a>> : a \in ScanBlobs} \cup {<<a, b>> : a \in ScanBlobs, b \in ScanBlobs}

InitScan ==
  /\ log \in [1..ScanHeights -> ScanBlocks]
  /\ mempool = <<>>
  /\ clock = 0
  /\ pc = [c \in Clients |-> IF c = 1 THEN "ready" ELSE "none"]
  /\ \E h \in 1..ScanHeights :
       metadata = [c \in Clients |-> IF c = 1 THEN Some(FreshMetadata(h, 0)) ELSE None]
  /\ search_limit = [c \in Clients |-> None]
  /\ local = [c \in Clients |-> NoLocal]
  /\ ret = NoReturn
  /\ MdInit
  /\ RecordInit
  /\ GameInit
  /\ ServerInit
  /\ LoadInit
  /\ WalkInit

\* One call over the log: client 1 scans for records, or client 2 is
\* constructed and discovers.
NextScan ==
  \/ \E k \in Keys, f \in FailSets :
       ret = NoReturn /\ pc[2] = "none" /\ GetRecord(1, k, TRUE, f)
  \/ \E f \in FailSets :
       ret = NoReturn /\ pc[2] = "none" /\ ListRecords(1, TRUE, f)
  \/ \E l \in ScanLimits, f \in FailSets :
       ret = NoReturn /\ pc[2] = "none" /\ New(2, NamespaceLen, None, l, TRUE, f)

SpecScan == InitScan /\ [][NextScan]_vars

\* Two constructed clients of one store, as SpecTwo leaves them when client 1
\* has created the store (blob at height 2, written with the head it read
\* before, 1) and client 2 has found it: they only add records.
InitRace ==
  /\ log = << <<>>, <<MetadataBlob(FreshMetadata(1, 1), 1)>> >>
  /\ mempool = <<>>
  /\ clock = 1
  /\ pc = [c \in Clients |-> "ready"]
  /\ metadata = [c \in Clients |->
                   IF c = 1 THEN Some(UpdatedStoreMetadata(FinalHeight(TRUE, 2, 2), 1))
                   ELSE Some(AsMetadata(MetadataBlob(FreshMetadata(1, 1), 1)))]
  /\ search_limit = [c \in Clients |-> None]
  /\ local = [c \in Clients |-> NoLocal]
  /\ ret = NoReturn
  /\ MdInit
  /\ RecordInit
  /\ GameInit
  /\ ServerInit
  /\ LoadInit
  /\ WalkInit

NextRace ==
  \/ \E c \in Clients, k \in Keys : AddRecord(c, k, Payload(clock + 1))
  \/ \E c \in Clients : AddRecordReturn(c)
  \/ \E chosen \in SUBSET (1..Cardinality(Clients)) : ProduceBlock(chosen)

SpecRace == InitRace /\ [][NextRace]_vars

\* A Record under new and any sequence of updates.
NextRecord ==
  \/ \E id \in RecordIds, d \in RecordDatas, now \in Times : RecNew(id, d, now)
  \/ \E d \in RecordDatas, now \in Times : RecUpdate(d, now)

SpecRecord == Init /\ [][NextRecord]_vars

\* The connection tasks of the game server.
NextGame ==
  \E a \in Addrs :
    \/ \E ok \in BOOLEAN : Accept(a, ok)
    \/ LockGame(a)
    \/ LockPeerMap(a)
    \/ InitialState(a)
    \/ InsertPeer(a)
    \/ \E ok \in BOOLEAN : SendInitialState(a, ok)
    \/ ReceiveMove(a)
    \/ ReceiveClose(a)
    \/ \E legal \in BOOLEAN : MakeMove(a, legal)
    \/ \E ok \in BOOLEAN : HeaderNetworkHead(a, ok)
    \/ \E ok \in BOOLEAN : BlobSubmit(a, ok)
    \/ \E ok \in BOOLEAN : SendCelestiaUpdate(a, ok)
    \/ SendVerifying(a)
    \/ Sleep(a)
    \/ BlobGetAll(a)
    \/ SendVerified(a)
    \/ \E delivered \in SUBSET Addrs : Broadcast(a, delivered)
    \/ SendError(a)
    \/ RemovePeer(a)

SpecGame == Init /\ [][NextGame]_vars

\* One scan, of any of the three kinds, over a ledger that goes on producing
\* blocks.  Every ledger call of the task returns, and the runtime goes on
\* polling the task: its next turn is taken at last.
NextWalk ==
  \/ \E limit \in Limits, head_ok \in BOOLEAN :
       WalkBegin("discover_database", "", 1, limit, head_ok)
  \/ \E key \in Keys, start \in 1..(MaxHeight + 1), head_ok \in BOOLEAN :
       WalkBegin("get_record", key, start, None, head_ok)
  \/ \E start \in 1..(MaxHeight + 1), head_ok \in BOOLEAN :
       WalkBegin("list_records", "", start, None, head_ok)
  \/ \E fetch_ok \in BOOLEAN : WalkFetch(fetch_ok)
  \/ WalkReturn
  \/ \E block \in WalkBlocks : WalkProduceBlock(block)

SpecWalk ==
  /\ Init /\ [][NextWalk]_vars
  /\ WF_vars(\E fetch_ok \in BOOLEAN : WalkFetch(fetch_ok))
  /\ WF_vars(WalkReturn)

\* The connection tasks of the GameServer.
NextServer ==
  \E i \in ClientIds :
    \/ \E ok \in BOOLEAN : SrvAccept(i, ok)
    \/ \E ok \in BOOLEAN : SrvSendState(i, ok)
    \/ SrvMove(i)
    \/ SrvNewGame(i)
    \/ SrvClose(i)
    \/ SrvReceiveErr(i)
    \/ \E ok \in BOOLEAN : SrvForward(i, ok)

SpecServer == Init /\ [][NextServer]_vars

\* main, up to the Game it serves.
NextLoad ==
  \/ \E height \in 0..MaxGameHead : MainHead(height)
  \/ \E answer \in Fetches : FetchGameState(answer)
  \/ MainInitialGame

SpecLoad == Init /\ [][NextLoad]_vars

\* Some height below h holds a record blob with this key.
OlderRecordBelow(h, key) ==
  \E g \in 1..(h - 1) : \E i \in DOMAIN log[g] :
    DecodesAsRecord(log[g][i]) /\ log[g][i].key = key

\* get_record(k) has returned Ok right after a successful add_record of a
\* record with key k by the same client.
ReadAfterCreate ==
  /\ ret.op = "get_record" /\ ret.ok
  /\ ret.val.after.add /\ ret.val.after.key = ret.arg.key

Places == UNION {{<<h, i>> : i \in DOMAIN log[h]} : h \in DOMAIN log}
Before(p, q) == p[1] < q[1] \/ (p[1] = q[1] /\ p[2] < q[2])
Last(places) == CHOOSE p \in places : \A q \in places : q = p \/ Before(q, p)
BlobAt(p) == log[p[1]][p[2]]

RecordPlaces(key) == {p \in Places : DecodesAsRecord(BlobAt(p)) /\ BlobAt(p).key = key}
MetadataPlaces(lo, hi) ==
  {p \in Places : p[1] >= lo /\ p[1] <= hi /\ DecodesAsMetadata(BlobAt(p))}

\* No add_record call is in progress and no block was produced since the
\* last call returned.
Quiet(latest_height) ==
  /\ mempool = <<>>
  /\ \A c \in Clients : pc[c] \in {"none", "ready"}
  /\ LatestHeight = latest_height

\* C2: get_record(key) returns the record written by the last successful
\* add_record call for that key (the latest one in log order), whatever
\* positions the writes got, when every write lies in the range it scans.
C2_LatestWriteWins ==
  (/\ ret.op = "get_record" /\ ret.ok
   /\ Quiet(ret.val.latest_height)
   /\ pc[ret.c] = "ready"
   /\ RecordPlaces(ret.arg.key) # {}
   /\ \A p \in RecordPlaces(ret.arg.key) : p[1] >= ScanStart(ret.c))
    => ret.val.found = Some(AsRecord(BlobAt(Last(RecordPlaces(ret.arg.key)))))

\* C8: when the search window holds several metadata blobs, discovery returns
\* the most recently submitted one: the latest in log order.
C8_MostRecentMetadata ==
  (ret.op = "new" /\ ret.ok /\ ret.val.how = "found")
    => LET places == MetadataPlaces(SearchStart(ret.val.latest_height, ret.arg.limit),
                                    ret.val.latest_height)
       IN ret.val.metadata = AsMetadata(BlobAt(Last(places)))

\* C4: list_records never returns two records with the same key, whatever
\* the log holds.
C4_NoDuplicateKeys ==
  (ret.op = "list_records" /\ ret.ok)
    => \A i \in DOMAIN ret.val.records, j \in DOMAIN ret.val.records :
         i # j => ret.val.records[i].key # ret.val.records[j].key

\* A list over a log that holds one key twice at one height and once more at
\* another, all in the scanned range.
C4_Witness ==
  /\ ret.op = "list_records" /\ ret.ok
  /\ \E i \in DOMAIN ret.val.records : ret.val.records[i].key = "k1"
  /\ \E p \in RecordPlaces("k1"), q \in RecordPlaces("k1"), r \in RecordPlaces("k1") :
       /\ p[1] = q[1] /\ p[2] # q[2] /\ r[1] # p[1]
       /\ p[1] >= ScanStart(ret.c) /\ r[1] >= ScanStart(ret.c)

\* C5: a construction that follows a completed construction on the same
\* namespace, with no add_record made so far, ends with the metadata
\* (start_height included) the earlier one ended with, whether the earlier
\* one found the store or created it.
C5_DiscoveryIdempotent ==
  (/\ ret.op = "new" /\ ret.ok /\ ret.val.how = "found"
   /\ mempool = <<>>
   /\ \A p \in Places : ~DecodesAsRecord(BlobAt(p))
   /\ Cardinality(MetadataPlaces(1, LatestHeight)) = 1)
    => \A d \in Clients :
         ret.val.others[d].some => ret.val.metadata = ret.val.others[d].v

\* C6: an add_record whose submission the ledger refuses returns an error,
\* leaves the in-memory metadata as it was before the call and adds nothing
\* to the log.
C6_FailedAddNoEffect ==
  (ret.op = "add_record" /\ ~ret.ok /\ pc[ret.c] = "ready")
    => /\ metadata[ret.c] = ret.val.before
       /\ {p \in RecordPlaces(ret.val.key) : BlobAt(p).data = ret.val.data} = {}

\* A block is empty, or one metadata blob, or a record blob followed by the
\* metadata blob of the same submission.
RecordThenMetadata(blobs) ==
  \/ blobs = <<>>
  \/ Len(blobs) = 1 /\ DecodesAsMetadata(blobs[1])
  \/ /\ Len(blobs) = 2
     /\ DecodesAsRecord(blobs[1]) /\ DecodesAsMetadata(blobs[2])
     /\ blobs[1].by = blobs[2].by

\* C7: a successful add_record made one submission, the record blob followed
\* by the metadata blob with record_count increased by one; both are at one
\* height, and no block or pending submission holds a record without its
\* metadata.
C7_RecordWithMetadata ==
  /\ \A h \in DOMAIN log : RecordThenMetadata(log[h])
  /\ \A i \in DOMAIN mempool : RecordThenMetadata(mempool[i].blobs)
  /\ (ret.op = "add_record" /\ ret.ok)
       => LET written == {h \in DOMAIN log :
                           /\ Len(log[h]) = 2
                           /\ DecodesAsRecord(log[h][1])
                           /\ AsRecord(log[h][1]) = [key |-> ret.val.key, data |-> ret.val.data]}
          IN /\ Cardinality(written) = 1
             /\ \A h \in written :
                  /\ log[h][2].record_count = ret.val.before.v.record_count + 1
                  /\ log[h][2].start_height = ret.val.before.v.start_height

\* The second add_record of a store has returned.
C7_Witness ==
  /\ ret.op = "add_record" /\ ret.ok
  /\ ret.val.before.v.record_count >= 1
  /\ \E h \in DOMAIN log : Len(log[h]) = 2 /\ log[h][1].data = ret.val.data

\* C9 as stated: new with a hint adopts the metadata that decodes at the
\* hinted height (no fetch failing).
C9_HintAdopted ==
  (/\ ret.op = "new" /\ ret.ok /\ ret.val.how = "found"
   /\ ret.arg.hint.some /\ ret.val.clean
   /\ ret.arg.hint.v <= ret.val.latest_height
   /\ FirstMetadata(log[ret.arg.hint.v]).some)
    => ret.val.metadata = FirstMetadata(log[ret.arg.hint.v]).v

\* C9: new with a hint adopts what its window search finds, a metadata blob
\* of the window, and the one at the highest height when every fetch of the
\* window succeeds; the hint plays no part.
C9_HintIgnored ==
  (ret.op = "new" /\ ret.ok /\ ret.val.how = "found" /\ ret.arg.hint.some)
    => LET places == MetadataPlaces(SearchStart(ret.val.latest_height, ret.arg.limit),
                                    ret.val.latest_height)
       IN /\ \E p \in places : ret.val.metadata = AsMetadata(BlobAt(p))
          /\ ret.val.clean => ret.val.metadata = AsMetadata(BlobAt(Last(places)))

\* new with a hint whose height holds a metadata blob, adopting another one.
C9_Witness ==
  /\ ret.op = "new" /\ ret.ok /\ ret.val.how = "found"
  /\ ret.arg.hint.some /\ ret.val.clean
  /\ ret.arg.hint.v <= ret.val.latest_height
  /\ FirstMetadata(log[ret.arg.hint.v]).some
  /\ ret.val.metadata # FirstMetadata(log[ret.arg.hint.v]).v

\* C10: a new that found nothing submitted one metadata blob with
\* record_count 0 and start_height the head read before the submission, and
\* keeps as start_height the acknowledged inclusion height, or the head read
\* after the submission when none is acknowledged.
C10_CreatedStartHeight ==
  (ret.op = "new" /\ ret.ok /\ ret.val.how = "created")
    => LET blobs == log[ret.val.inclusion_height]
       IN /\ Len(blobs) = 1
          /\ DecodesAsMetadata(blobs[1])
          /\ blobs[1].record_count = 0
          /\ blobs[1].start_height = ret.val.latest_height
          /\ pc[ret.c] = "ready" =>
               metadata[ret.c].v.start_height =
                 IF ret.val.acked THEN ret.val.inclusion_height ELSE ret.val.current_height

\* A store created with an acknowledged inclusion height that is neither the
\* head read before nor the head read after the submission.
C10_Witness ==
  /\ ret.op = "new" /\ ret.ok /\ ret.val.how = "created" /\ pc[ret.c] = "ready"
  /\ ret.val.acked
  /\ ret.val.inclusion_height # ret.val.current_height
  /\ ret.val.inclusion_height # ret.val.latest_height
  /\ metadata[ret.c].v.start_height = ret.val.inclusion_height

\* The place a scan from the head downward meets first: the highest height,
\* and at that height the first in block order.
TopFirst(places) ==
  CHOOSE p \in places : \A q \in places : q[1] < p[1] \/ (q[1] = p[1] /\ q[2] >= p[2])

\* The places of a range whose fetch did not fail.
FetchedPlaces(places, lo, hi, fails) ==
  {p \in places : p[1] >= lo /\ p[1] <= hi /\ p[1] \notin fails}

AllRecordPlaces == {p \in Places : DecodesAsRecord(BlobAt(p))}

\* C11: a position whose fetch fails, or that holds no blobs, is skipped:
\* discover_database, get_record and list_records return Ok with the result
\* that the remaining positions of the range determine.
C11_FailedFetchSkipped ==
  /\ (ret.op = "get_record" /\ ret.ok) =>
       LET places == FetchedPlaces(RecordPlaces(ret.arg.key), ScanStart(ret.c),
                                   ret.val.latest_height, ret.val.fails)
       IN ret.val.found = IF places = {} THEN None
                          ELSE Some(AsRecord(BlobAt(TopFirst(places))))
  /\ (ret.op = "list_records" /\ ret.ok) =>
       LET places == FetchedPlaces(AllRecordPlaces, ScanStart(ret.c),
                                   ret.val.latest_height, ret.val.fails)
       IN {ret.val.records[i] : i \in DOMAIN ret.val.records} =
          {AsRecord(BlobAt(TopFirst({q \in places : BlobAt(q).key = BlobAt(p).key}))) :
             p \in places}
  /\ (ret.op = "new" /\ ret.ok /\ ret.val.how = "found") =>
       LET places == FetchedPlaces(MetadataPlaces(1, ret.val.latest_height),
                                   SearchStart(ret.val.latest_height, ret.arg.limit),
                                   ret.val.latest_height, ret.val.fails)
       IN places # {} /\ ret.val.metadata = AsMetadata(BlobAt(TopFirst(places)))

\* A get_record that returned the record of a lower position because the
\* fetch of the highest position holding the key failed.
C11_Witness ==
  /\ ret.op = "get_record" /\ ret.ok /\ ret.val.found.some
  /\ \E p \in RecordPlaces(ret.arg.key) :
       /\ p[1] \in ret.val.fails
       /\ p[1] <= ret.val.latest_height
       /\ \E q \in RecordPlaces(ret.arg.key) :
            q[1] < p[1] /\ ret.val.found.v = AsRecord(BlobAt(q))
                        /\ ret.val.found.v # AsRecord(BlobAt(p))

\* The metadata blobs of the batch submitted last.
SubmittedMetadata(pool) ==
  LET blobs == pool[Len(pool)].blobs
  IN {blobs[i] : i \in {j \in DOMAIN blobs : DecodesAsMetadata(blobs[j])}}

\* C12: no step changes the in-memory start_height of a constructed store;
\* the metadata blob of an add_record carries that start_height, and the
\* start_height a created store keeps is not below the one in the blob it
\* submitted at creation: the blobs one store submits never go down.
C12_StartHeightNeverDecreases ==
  [][\A c \in Clients :
       /\ (metadata[c].some /\ metadata'[c].some)
            => metadata'[c].v.start_height = metadata[c].v.start_height
       /\ (pc[c] = "ready" /\ pc'[c] = "add_submit")
            => \A b \in SubmittedMetadata(mempool') :
                 b.start_height = metadata[c].v.start_height
       /\ (pc[c] = "creating" /\ pc'[c] = "new_submit")
            => \A b \in SubmittedMetadata(mempool') :
                 b.start_height = local'[c].latest_height
       /\ (pc[c] = "new_saved" /\ pc'[c] = "ready")
            => metadata'[c].v.start_height >= local[c].latest_height]_vars

\* A store whose add_record blob carries a higher start_height than the blob
\* submitted at its creation.
C12_Witness ==
  /\ pc[1] = "ready" /\ metadata[1].some
  /\ \E p \in MetadataPlaces(1, LatestHeight), q \in MetadataPlaces(1, LatestHeight) :
       /\ Before(p, q)
       /\ BlobAt(p).record_count = 0 /\ BlobAt(q).record_count = 1
       /\ BlobAt(p).start_height < BlobAt(q).start_height
       /\ metadata[1].v.start_height = BlobAt(q).start_height

\* C13: with one writer, when new or add_record has returned Ok (no fetch
\* having failed), the in-memory metadata has the start_height and the
\* record_count of the metadata blob at the highest position of the log.
C13_MemoryMatchesLog ==
  (/\ ret.op \in {"new", "add_record"} /\ ret.ok
   /\ pc[ret.c] = "ready"
   /\ (ret.op = "new" /\ ret.val.how = "found") => ret.val.clean
   /\ MetadataPlaces(1, LatestHeight) # {})
    => LET blob == BlobAt(Last(MetadataPlaces(1, LatestHeight)))
       IN /\ metadata[ret.c].v.start_height = blob.start_height
          /\ metadata[ret.c].v.record_count = blob.record_count

\* C14: two clients adding records to one store lose each other's metadata
\* updates: the record_count of the most recent metadata blob never exceeds
\* the number of record blobs in the log, equals it while only one of the
\* two has written, and falls below it in a reachable state.
C14_CountAtMostRecords ==
  LET last == BlobAt(Last(MetadataPlaces(1, LatestHeight)))
      writers == {BlobAt(p).by : p \in AllRecordPlaces}
  IN /\ last.record_count <= Cardinality(AllRecordPlaces)
     /\ Cardinality(writers) <= 1 => last.record_count = Cardinality(AllRecordPlaces)

\* Every add_record has returned Ok, both clients have written, and the most
\* recent metadata blob counts fewer records than the log holds.
C14_Witness ==
  /\ mempool = <<>>
  /\ \A c \in Clients : pc[c] = "ready"
  /\ {BlobAt(p).by : p \in AllRecordPlaces} = Clients
  /\ BlobAt(Last(MetadataPlaces(1, LatestHeight))).record_count
       < Cardinality(AllRecordPlaces)

\* A ledger call of the task is in progress.
LedgerCall(a) == conn[a].at \in {"head", "submit", "head2", "verify"}

\* C15: no task holds the game guard or the peer_map guard while a ledger
\* call of its own (head, submit, fetch) is in progress.
C15_NoLockAcrossLedgerCall ==
  \A a \in Addrs : LedgerCall(a) => (game_lock # a /\ peer_map_lock # a)

\* The step is a delete_record(id) call.
DeleteRecordStep(id) ==
  /\ mdret'.calls = mdret.calls + 1
  /\ mdret'.op = "delete_record" /\ mdret'.id = id

\* C16: delete_record(id) for an id that is not in index, never added or
\* already deleted, returns false and leaves record_count, index, deleted and
\* last_updated as they were.
C16_DeleteAbsentNoEffect ==
  [][\A id \in Ids :
       (DeleteRecordStep(id) /\ id \notin DOMAIN md.index)
         => (mdret'.val = FALSE /\ md' = md)]_vars

\* A second delete_record of an id has returned false, other ids being indexed.
C16_Witness ==
  /\ mdret.op = "delete_record" /\ mdret.val = FALSE
  /\ mdret.id \in md.deleted
  /\ md.record_count > 0 /\ DOMAIN md.index # {}

\* The metadata blobs that a creation submitted.
CreationPlaces ==
  {p \in Places : DecodesAsMetadata(BlobAt(p)) /\ BlobAt(p).record_count = 0}

\* The store was created once and every record blob has a key of its own.
FreshStoreDistinctKeys ==
  /\ Cardinality(CreationPlaces) = 1
  /\ \A p, q \in AllRecordPlaces : p # q => BlobAt(p).key # BlobAt(q).key

\* C17: on a store created once, with one writer and no failed fetch, after n
\* successful add_record calls with pairwise distinct keys list_records
\* returns exactly n records, the one written for each key.
C17_ListReturnsEveryRecord ==
  (/\ ret.op = "list_records" /\ ret.ok
   /\ ret.val.fails = {}
   /\ ret.val.latest_height = LatestHeight
   /\ FreshStoreDistinctKeys)
    => /\ Len(ret.val.records) = Cardinality(AllRecordPlaces)
       /\ {ret.val.records[i] : i \in DOMAIN ret.val.records}
            = {AsRecord(BlobAt(p)) : p \in AllRecordPlaces}

\* list_records has returned the two records of two add_record calls.
C17_Witness ==
  /\ ret.op = "list_records" /\ ret.ok
  /\ ret.val.fails = {}
  /\ ret.val.latest_height = LatestHeight
  /\ FreshStoreDistinctKeys
  /\ Cardinality(AllRecordPlaces) = 2
  /\ Len(ret.val.records) = 2

\* C18: after Record::update(data), updated_at is strictly greater than
\* created_at, data is the new payload, and id and created_at are unchanged.
C18_UpdateAdvancesUpdatedAt ==
  recret.op = "update" =>
    /\ rec.v.updated_at > rec.v.created_at
    /\ rec.v.data = recret.data
    /\ rec.v.id = recret.before.v.id
    /\ rec.v.created_at = recret.before.v.created_at

\* The step is the failure of the blob_submit call of client c: its
\* submission leaves the pending ones and the log stays as it is.
SubmitFails(c) ==
  /\ log' = log
  /\ \E i \in DOMAIN mempool :
       mempool[i].c = c /\ mempool' = Remaining(mempool, {i}, 1)

\* C19: when a blob_submit call fails, the operation that made it (new while
\* creating the store, add_record) ends there and returns an error to its
\* caller; it never returns Ok.
C19_SubmitFailureSurfaced ==
  [][\A c \in Clients :
       SubmitFails(c)
         => /\ ret'.c = c /\ ~ret'.ok
            /\ ret'.op = (IF pc[c] = "new_submit" THEN "new" ELSE "add_record")
            /\ pc'[c] \in {"none", "ready"}]_vars

\* add_record has returned the error of its refused submission.
C19_Witness ==
  /\ ret.op = "add_record" /\ ~ret.ok
  /\ pc[ret.c] = "ready" /\ mempool = <<>>
  /\ AllRecordPlaces = {}

C21_InvalidNamespaceNoLedgerCall ==
  (ret.op = "new" /\ ret.arg # NoArg /\ ret.arg.ns_len # NamespaceLen)
    => /\ ~ret.ok /\ ret.val.err = "InvalidNamespace"
       /\ ret.val.heads = 0 /\ ~ret.val.fetched /\ ~ret.val.submitted
       /\ pc[ret.c] = "none" /\ metadata[ret.c] = None
       /\ \A i \in DOMAIN mempool : mempool[i].c # ret.c

\* new has refused a namespace of another length on a ledger that holds a store.
C21_Witness ==
  /\ ret.op = "new" /\ ret.arg # NoArg /\ ret.arg.ns_len # NamespaceLen
  /\ ~ret.ok /\ ret.val.err = "InvalidNamespace"
  /\ MetadataPlaces(1, LatestHeight) # {}

\* max(1, head - limit) over the integers, limit being search_limit or 100.
WindowLow(head, limit) ==
  LET d == head - (IF limit.some THEN limit.v ELSE DefaultSearchLimit)
  IN IF d > 1 THEN d ELSE 1

\* The sequence is hi, hi - 1, .. one position after the other.
Descending(t, hi) == \A i \in DOMAIN t : t[i] = hi - i + 1

\* The fetches of a discovery that found metadata, and of one that did not.
FoundFetches ==
  ret.op = "new" /\ ret.ok /\ ret.val.how = "found"
SoughtFetches(c) ==
  pc[c] = "creating" /\ local[c].fetched # <<>>

Constructed(c) == pc[c] \in {"ready", "add_submit", "add_acked"}

\* C23: a DatabaseClient that new has returned has its metadata set, and no
\* operation on it unsets it: get_record and list_records never fall back to
\* start_height 1 and add_record never takes its branch without metadata.
C23_ReadyHasMetadata ==
  \A c \in Clients : Constructed(c) => metadata[c].some

\* A get_record after an add_record, scanning from the store's start_height.
C23_Witness ==
  /\ ret.op = "get_record" /\ ret.ok
  /\ Constructed(ret.c) /\ metadata[ret.c].some
  /\ metadata[ret.c].v.record_count > 0
  /\ ScanStart(ret.c) = metadata[ret.c].v.start_height /\ ScanStart(ret.c) > 1

\* C24: the first message a client gets from the GameServer is a GameState
\* message, and every GameState message the server sends, on connect or for
\* NewGame, has game_over = false and winner = None, whatever Move and NewGame
\* messages were handled before.
C24_GameStateNeverOver ==
  \A i \in ClientIds :
    /\ ws_out[i] # <<>> => ws_out[i][1].type = "GameState"
    /\ \A m \in {ws_out[i][n] : n \in DOMAIN ws_out[i]}
                \cup {rx[i][n] : n \in DOMAIN rx[i]} :
         m.type = "GameState" => (m.state.game_over = FALSE /\ m.state.winner = None)

\* A client connected after a Move and a NewGame were handled, and got its
\* GameState; the other got the GameState of connect, the MoveResponse and
\* the GameState of NewGame.
C24_Witness ==
  \E i, j \in ClientIds :
    /\ i # j
    /\ Len(ws_out[i]) = 3
    /\ ws_out[i][2].type = "MoveResponse" /\ ws_out[i][3].type = "GameState"
    /\ Len(ws_out[j]) = 1 /\ ws_out[j][1].type = "GameState"
    /\ rx[j] = <<>>

\* The records of a list with this key.
Listed(records, key) == {records[i] : i \in {j \in DOMAIN records : records[j].key = key}}

\* What the other scan returns over the same log, head, start_height and
\* failing fetches as the call that has returned.
GetRecordHere(key) ==
  SearchRecord(ret.val.latest_height, ScanStart(ret.c), ret.val.fails, key)
ListRecordsHere ==
  ScanRecords(ret.val.latest_height, ScanStart(ret.c), ret.val.fails, <<>>)

\* C25: list_records and get_record agree: over one log, head and set of
\* failing fetches, list_records holds a record with key k exactly when
\* get_record(k) returns Some, and then it is that record.
C25_ListAgreesWithGet ==
  /\ (ret.op = "list_records" /\ ret.ok) =>
       \A k \in Keys :
         Listed(ret.val.records, k)
           = (IF GetRecordHere(k).some THEN {GetRecordHere(k).v} ELSE {})
  /\ (ret.op = "get_record" /\ ret.ok) =>
       Listed(ListRecordsHere, ret.arg.key)
         = (IF ret.val.found.some THEN {ret.val.found.v} ELSE {})

\* A list over a range that holds one key at two heights with different
\* payloads, and another key.
C25_Witness ==
  /\ ret.op = "list_records" /\ ret.ok
  /\ Len(ret.val.records) = 2
  /\ \E p, q \in RecordPlaces("k1") :
       /\ p[1] > q[1] /\ q[1] >= ScanStart(ret.c)
       /\ p[1] \notin ret.val.fails /\ q[1] \notin ret.val.fails
       /\ BlobAt(p).data # BlobAt(q).data
       /\ Listed(ret.val.records, "k1") = {AsRecord(BlobAt(p))}

\* The step is an add_record(id, h) call.
AddRecordStep(id) ==
  /\ mdret'.calls = mdret.calls + 1
  /\ mdret'.op = "add_record" /\ mdret'.id = id

\* C26: for an id that is not in deleted, add_record(id, h) makes
\* get_record_height(id) Some(h), the first time and every later time, and
\* an add_record or delete_record of another id leaves get_record_height(id)
\* as it was.
C26_IndexPointsAtLastAdd ==
  [][\A id \in Ids :
       /\ (AddRecordStep(id) /\ id \notin md.deleted)
            => GetRecordHeight(md', id) = Some(mdret'.val)
       /\ (\E other \in Ids \ {id} : AddRecordStep(other) \/ DeleteRecordStep(other))
            => GetRecordHeight(md', id) = GetRecordHeight(md, id)]_vars

\* get_record_height has returned the height of the second add_record of an
\* id, the other id having been added too.
C26_Witness ==
  /\ mdret.op = "get_record_height" /\ mdret.val = Some(2)
  /\ mdret.id \notin md.deleted
  /\ md.record_count = 3 /\ DOMAIN md.index = Ids

\* C27: after any sequence of add_record and delete_record calls on a
\* DatabaseMetadata made by new(), record_count is the number of ids in index.
C27_CountMatchesIndex ==
  md.record_count = Cardinality(DOMAIN md.index)

\* The places of the scanned range, fetched with success, that hold a record
\* blob with the key of the get_record that has returned.
MatchingPlaces ==
  FetchedPlaces(RecordPlaces(ret.arg.key), ScanStart(ret.c), ret.val.latest_height,
                ret.val.fails)

\* C28: get_record(key) returns Ok(None) exactly when no position of
\* [start_height, head] whose fetch succeeded holds a record blob with that
\* key; what it returns otherwise is the record of such a blob, never a blob
\* that is no record or has another key.
C28_NoneIffNoMatch ==
  (ret.op = "get_record" /\ ret.ok) =>
    /\ ret.val.found = None <=> MatchingPlaces = {}
    /\ ret.val.found.some =>
         /\ ret.val.found.v.key = ret.arg.key
         /\ \E p \in MatchingPlaces : ret.val.found.v = AsRecord(BlobAt(p))

\* get_record returned None over a range holding a metadata blob and a
\* record of another key, the key itself lying only outside what it fetched.
C28_Witness ==
  /\ ret.op = "get_record" /\ ret.ok /\ ret.val.found = None
  /\ RecordPlaces(ret.arg.key) # {}
  /\ \E p \in Places :
       /\ p[1] >= ScanStart(ret.c) /\ p[1] \notin ret.val.fails
       /\ DecodesAsRecord(BlobAt(p)) /\ BlobAt(p).key # ret.arg.key
  /\ \E p \in MetadataPlaces(ScanStart(ret.c), ret.val.latest_height) :
       p[1] \notin ret.val.fails

\* What holds of a scan at every moment: one head read, fetches in strictly
\* descending order inside the closed range, and no error but that of the
\* head read; over an empty range, nothing fetched and nothing found.
WalkSafe ==
  /\ walk.heads <= 1
  /\ \A i, j \in DOMAIN walk.fetched : i < j => walk.fetched[i] > walk.fetched[j]
  /\ \A i \in DOMAIN walk.fetched :
       walk.fetched[i] >= walk.start_height /\ walk.fetched[i] <= walk.latest_height
  /\ ~walk.ok => (walk.at = "returned" /\ walk.fetched = <<>>)
  /\ (walk.at = "returned" /\ walk.ok /\ walk.start_height > walk.latest_height)
       => (walk.fetched = <<>> /\ walk.result \in {None, <<>>})

\* C29: every scan reads the head once, fetches each position of its closed
\* range at most once, in strictly descending order, and then returns, though
\* the ledger goes on producing blocks during the scan; over an empty range
\* (start_height above head) it fetches nothing and returns None or an empty
\* list, without error.
C29_ScanTerminates ==
  /\ []WalkSafe
  /\ (walk.at = "loop") ~> (walk.at = "returned")

\* A scan returned after fetching both positions of its range, two blocks
\* having been produced while it ran.
C29_Witness ==
  /\ walk.at = "returned" /\ walk.ok
  /\ walk.advanced = 2 /\ Len(log) = walk.latest_height + 2
  /\ Len(walk.fetched) = 2
  /\ walk.fetched[1] = walk.latest_height

\* max(0, height - 10) over the integers.
LookBackLow(height) == IF height - LookBack > 0 THEN height - LookBack ELSE 0

\* get_latest_game_state has returned.
Returned == gls.at \in {"returned", "serving"}

\* C30: get_latest_game_state inspects height, height - 1, .. down to
\* max(0, height - 10) and returns the state decoded from the last blob of the
\* first position with a non-empty blob set, None when every position is
\* empty, and an error, without going on to lower positions, when a fetch
\* fails or that last blob does not decode; after an error, after None and
\* after a state whose fen does not parse, main starts from a new game.
C30_LatestGameState ==
  LET seen == gls.seen
      n == Len(seen)
  IN /\ \A i \in 1..n : seen[i].h = gls.height - i + 1 /\ seen[i].h >= LookBackLow(gls.height)
     /\ \A i \in 1..n : (i < n \/ ~Returned) => seen[i].answer \in Continuing
     /\ Returned =>
          /\ n >= 1
          /\ seen[n].answer \in Fens => gls.result = OkResult(Some(seen[n].answer))
          /\ seen[n].answer \in {"Err", "undecodable"} => ~gls.result.ok
          /\ seen[n].answer \in Continuing =>
               (gls.result = OkResult(None) /\ seen[n].h = LookBackLow(gls.height))
     /\ gls.at = "serving" =>
          initial_game = (IF n >= 1 /\ seen[n].answer = "fen" THEN Some("fen")
                          ELSE Some("new game"))

\* main starts from a new game: the third position looked at held a blob
\* that is no GameState, and no lower position was fetched.
C30_Witness ==
  /\ gls.at = "serving" /\ initial_game = Some("new game")
  /\ gls.height = MaxGameHead
  /\ Len(gls.seen) = 3 /\ gls.seen[3].answer = "undecodable"
  /\ ~gls.result.ok

\* C31: a record written by a successful add_record is returned by
\* get_record on every client constructed later for the same namespace,
\* however far the head has advanced in between.  With one writer a client
\* whose record_count is 0 has made no add_record of its own, so every record
\* of the log was written before it was constructed; the record get_record
\* has to return for a key is the last one written.
C31_LaterClientReadsRecord ==
  (/\ ret.op = "get_record" /\ ret.ok /\ ret.val.fails = {}
   /\ Quiet(ret.val.latest_height)
   /\ pc[ret.c] = "ready"
   /\ metadata[ret.c].v.record_count = 0
   /\ RecordPlaces(ret.arg.key) # {})
    => ret.val.found = Some(AsRecord(BlobAt(Last(RecordPlaces(ret.arg.key)))))

\* The places of the log that hold the metadata blob submitted by the new
\* call client c is in: the blob save_metadata handed to blob_submit, at the
\* height the ledger included it at (none while it is pending, and none when
\* the call has not submitted).
SubmittedByNew(c) ==
  {p \in Places :
     /\ p[1] = local[c].height
     /\ DecodesAsMetadata(BlobAt(p)) /\ BlobAt(p).by = c
     /\ AsMetadata(BlobAt(p)) = FreshMetadata(local[c].latest_height, clock)}

\* C32: when new returns an error, the log holds no blob submitted by that
\* call.
C32_FailedNewSubmitsNothing ==
  [][\A c \in Clients :
       (/\ ret'.op = "new" /\ ~ret'.ok /\ ret'.c = c
        /\ (ret' # ret \/ pc'[c] # pc[c]))
         => SubmittedByNew(c) = {}]_vars

\* C33: on a store created once, with one writer, every add_record call
\* having returned Ok (keys may repeat) and no fetch failing, the in-memory
\* record_count equals the number of records list_records returns.
C33_CountEqualsListed ==
  (/\ ret.op = "list_records" /\ ret.ok /\ ret.val.fails = {}
   /\ Quiet(ret.val.latest_height)
   /\ pc[ret.c] = "ready"
   /\ Cardinality(CreationPlaces) = 1)
    => metadata[ret.c].v.record_count = Len(ret.val.records)

\* C34: record_count is never smaller than the number of ids in index, and
\* the decrement of delete_record never takes it below 0, for any sequence
\* of add_record and delete_record calls from new().
C34_CountCoversIndex ==
  /\ md.record_count >= Cardinality(DOMAIN md.index)
  /\ md.record_count >= 0

\* delete_record has returned true on an id that was added twice: the count
\* went down by one and stays above the number of ids in index.
C34_Witness ==
  /\ mdret.op = "delete_record" /\ mdret.val = TRUE
  /\ md.record_count > Cardinality(DOMAIN md.index)
  /\ DOMAIN md.index # {}

\* C35: a get_record or list_records call, returning Ok or an error, submits
\* nothing (the log and the pending submissions are as before) and leaves the
\* in-memory metadata and search_limit of every client unchanged.
C35_ReadsLeaveStore ==
  [][(ret'.op \in {"get_record", "list_records"} /\ ret' # ret)
       => /\ log' = log /\ mempool' = mempool
          /\ metadata' = metadata /\ search_limit' = search_limit]_vars

\* get_record has returned an error on a client that holds a search_limit
\* and metadata counting a record.
C35_Witness ==
  /\ ret.op = "get_record" /\ ~ret.ok
  /\ search_limit[ret.c].some
  /\ metadata[ret.c].some /\ metadata[ret.c].v.record_count > 0

\* Where a task is between a make_move that returned true and the end of
\* the block of that move.
InMoveBlock(a) ==
  conn[a].at \in {"head", "submit", "ack", "verifying", "sleep", "head2", "verify",
                  "verified", "broadcast", "error_msg"}

\* C36: every move applied to the Game is sent as a gameState message to the
\* peers of peer_map, whether or not its submission succeeds.  Only the
\* broadcast sends the position of that move, so the task may leave the block
\* of an applied move through the broadcast alone.
C36_AppliedMoveBroadcast ==
  [][\A a \in Addrs :
       (InMoveBlock(a) /\ conn'[a].at \in {"receive", "panicked"})
         => At(a, "broadcast")]_vars

\* The positions of the gameState messages that report a move, in the order
\* they were sent to addr p.
RECURSIVE MovesSent(_)
MovesSent(msgs) ==
  IF msgs = <<>> THEN <<>>
  ELSE (IF msgs[1].moved THEN <<msgs[1].state>> ELSE <<>>) \o MovesSent(Tail(msgs))

\* C37: the gameState broadcasts reach every peer in the order in which the
\* moves were applied to the Game: a later move's broadcast never precedes an
\* earlier one's.
C37_BroadcastsInMoveOrder ==
  \A p \in Addrs :
    LET moves == MovesSent(sent[p])
    IN \A i, j \in DOMAIN moves : i < j => moves[i] < moves[j]

\* Both connections were open before the first move, each has applied a move
\* of its own, and both have been sent the two broadcasts.
C37_Witness ==
  /\ \A p \in Addrs : sent[p] # <<>> /\ Head(sent[p]) = GameStateMsg(0, FALSE)
  /\ \A p \in Addrs : MovesSent(sent[p]) = <<1, 2>>
  /\ {conn[p].state : p \in Addrs} = {1, 2}

\* Where a task asks for the game guard and for the peer_map guard, and
\* whether it is still waiting for it.
GameWaits == {"initial_state", "move"}
PeerMapWaits == {"insert", "send_initial", "ack", "verifying", "verified",
                 "broadcast", "error_msg", "remove"}
WaitsForGame(a) == conn[a].at \in GameWaits /\ game_lock # a
WaitsForPeerMap(a) == conn[a].at \in PeerMapWaits /\ peer_map_lock # a

\* The lock the task waits for is held.
Blocked(a) ==
  \/ WaitsForGame(a) /\ game_lock # 0
  \/ WaitsForPeerMap(a) /\ peer_map_lock # 0

\* C38: the tasks never deadlock on the two locks.  No task waits for game
\* while it holds peer_map, and a blocked task waits for a task that is not
\* blocked; a task takes game only when it does not hold peer_map (one that
\* holds both took game first), and it never comes to ask for a lock it
\* already holds.
C38_NoLockDeadlock ==
  /\ [](\A a \in Addrs :
          /\ peer_map_lock = a => ~WaitsForGame(a)
          /\ Blocked(a) =>
               \E b \in Addrs : (game_lock = b \/ peer_map_lock = b) /\ ~Blocked(b))
  /\ [][\A a \in Addrs :
          /\ (game_lock' = a /\ game_lock # a) => peer_map_lock # a
          /\ (conn'[a].at # conn[a].at /\ conn'[a].at \in GameWaits) => game_lock' # a
          /\ (conn'[a].at # conn[a].at /\ conn'[a].at \in PeerMapWaits)
               => peer_map_lock' # a]_vars

\* A task that holds game for its move waits for peer_map, which the other
\* task holds to remove its sender, while no other lock is asked for.
C38_Witness ==
  \E a, b \in Addrs :
    /\ game_lock = a /\ At(a, "ack") /\ WaitsForPeerMap(a)
    /\ peer_map_lock = b /\ At(b, "remove")

\* C3: once delete_record(id) has returned true, record_exists(id) is false
\* and get_record_height(id) is None in every later state, whatever calls
\* follow, also when the id is in index again.
C3_TombstoneWins ==
  \A id \in mdret.tombstoned :
    /\ ~RecordExists(md, id)
    /\ GetRecordHeight(md, id) = None
    /\ (mdret.op = "record_exists" /\ mdret.id = id) => mdret.val = FALSE
    /\ (mdret.op = "get_record_height" /\ mdret.id = id) => mdret.val = None

\* An id that was deleted and added again is asked for: it is in index and in deleted.
C3_Witness ==
  /\ mdret.op \in {"record_exists", "get_record_height"}
  /\ mdret.id \in mdret.tombstoned
  /\ mdret.id \in DOMAIN md.index
  /\ mdret.id \in md.deleted

====
